---- MODULE Spec2Model ----
(***************************************************************************)
(* State-machine model of the SheetMind action execution and undo engine   *)
(* (Sheetmind/frontend/deploy/Code.gs).                                    *)
(*                                                                         *)
(* Modelling conventions                                                   *)
(*   - A JavaScript string that the code parses (cell reference, range,    *)
(*     formula) is a sequence of one-character strings.  Sheet names and   *)
(*     action tags are never parsed and are plain strings.                 *)
(*   - A message built with "+" is the sequence of its parts.              *)
(*   - A handler is an operator from a workbook to an outcome record       *)
(*     [wb, ret, threw, calls, flushes]: the workbook afterwards, the      *)
(*     returned (or thrown) message, whether it threw, the mutating host   *)
(*     calls it issued, and how often it called SpreadsheetApp.flush().    *)
(*   - A workbook is [sheets, active]; a sheet is [name, grid]; a grid is  *)
(*     a sequence of rows; a row is a sequence of cells; a cell is         *)
(*     [c, f]: its content (the empty sequence when empty) and whether it  *)
(*     carries formatting.                                                 *)
(***************************************************************************)
EXTENDS Integers, Sequences, FiniteSets, TLC

VARIABLES
    wb,         \* the workbook (SpreadsheetApp.getActiveSpreadsheet())
    pc,         \* position of the host runtime: "idle" or inside executeStepPlan
    steps,      \* executeStepPlan: the argument
    i,          \* executeStepPlan: the loop index (0-based, as in the code)
    results,    \* executeStepPlan: the results array
    disp,       \* arguments handed to executeSheetAction by the running plan
    flushed,    \* executeStepPlan: per loop iteration, whether it flushed
    wb0,        \* the workbook when the current/last top-level call started
    donewb,     \* the workbook after the last step reported "done"
    last,       \* the last top-level call: its input and its outcome
    usage_records,  \* the usage_records row of one (user_id, period)
    callers     \* the sessions running check_and_increment_usage

vars == <<wb, pc, steps, i, results, disp, flushed, wb0, donewb, last,
          usage_records, callers>>

sheetVars == <<wb, pc, steps, i, results, disp, flushed, wb0, donewb, last>>
usageVars == <<usage_records, callers>>

----------------------------------------------------------------------------
(* Bounds of the model *)

\* rows and columns of a freshly inserted sheet (the host gives 1000 x 26)
NewRows == 2
NewCols == 2
\* longest plan handed to executeStepPlan
MaxPlan == 3
\* specification SpecRows: rows of the sheet, and longest row list
RowsGridRows == 7
MaxRowList == 4
\* specification SpecFormula: rows and columns of the sheet
FormulaRows == 4
FormulaCols == 3

----------------------------------------------------------------------------
(* Characters *)

UpperLetters == <<"A","B","C","D","E","F","G","H","I","J","K","L","M",
                  "N","O","P","Q","R","S","T","U","V","W","X","Y","Z">>
LowerLetters == <<"a","b","c","d","e","f","g","h","i","j","k","l","m",
                  "n","o","p","q","r","s","t","u","v","w","x","y","z">>
DigitChars == <<"0","1","2","3","4","5","6","7","8","9">>

InSeq(x, s) == \E k \in 1..Len(s) : s[k] = x
IndexIn(x, s) == CHOOSE k \in 1..Len(s) : s[k] = x

IsUpper(ch) == InSeq(ch, UpperLetters)
IsLower(ch) == InSeq(ch, LowerLetters)
IsDigit(ch) == InSeq(ch, DigitChars)
IsSpace(ch) == ch = " "

\* String.prototype.charCodeAt for the characters the model uses
charCode(ch) ==
    IF IsUpper(ch) THEN 64 + IndexIn(ch, UpperLetters)
    ELSE IF IsLower(ch) THEN 96 + IndexIn(ch, LowerLetters)
    ELSE IF IsDigit(ch) THEN 47 + IndexIn(ch, DigitChars)
    ELSE IF ch = " " THEN 32
    ELSE IF ch = "!" THEN 33
    ELSE IF ch = "(" THEN 40
    ELSE IF ch = ")" THEN 41
    ELSE IF ch = "*" THEN 42
    ELSE IF ch = "," THEN 44
    ELSE IF ch = ":" THEN 58
    ELSE IF ch = "=" THEN 61
    ELSE 63

\* String.prototype.toUpperCase, one character
upperChar(ch) == IF IsLower(ch) THEN UpperLetters[IndexIn(ch, LowerLetters)] ELSE ch

toUpperCase(s) == [k \in 1..Len(s) |-> upperChar(s[k])]

\* parseInt of a sequence of digits
RECURSIVE parseInt(_)
parseInt(s) ==
    IF Len(s) = 0 THEN 0
    ELSE 10 * parseInt(SubSeq(s, 1, Len(s) - 1)) + (charCode(s[Len(s)]) - 48)

\* Convert a column letter (A, B, AA) to 1-indexed number.
RECURSIVE _letterToColumn(_)
_letterToColumn(letter) ==
    IF Len(letter) = 0 THEN 0
    ELSE _letterToColumn(SubSeq(letter, 1, Len(letter) - 1)) * 26
         + (charCode(letter[Len(letter)]) - 64)

----------------------------------------------------------------------------
(* Cells, grids, sheets *)

EmptyCell == [c |-> <<>>, f |-> FALSE]

\* a sheet without a filter (Sheet.getFilter() is null); a filter covers the
\* data range it was created on and hides, in one column, the data rows whose
\* value is on its hidden-values list
NoFilter == [on |-> FALSE, numRows |-> 0, numCols |-> 0, column |-> 0, hidden |-> <<>>]
BlankGrid(nr, nc) == [r \in 1..nr |-> [k \in 1..nc |-> EmptyCell]]

NumRows(g) == Len(g)
NumCols(g) == IF Len(g) = 0 THEN 0 ELSE Len(g[1])

RowHasContent(row) == \E k \in 1..Len(row) : row[k].c # <<>>

\* Sheet.getLastRow(): the last row that has content, 0 on an empty sheet
getLastRow(g) ==
    IF \E r \in 1..Len(g) : RowHasContent(g[r])
    THEN CHOOSE r \in 1..Len(g) :
            /\ RowHasContent(g[r])
            /\ \A q \in (r + 1)..Len(g) : ~RowHasContent(g[q])
    ELSE 0

\* last row of one column that has content, 0 when the column is empty
LastRowOfColumn(g, col) ==
    IF \E r \in 1..Len(g) : g[r][col].c # <<>>
    THEN CHOOSE r \in 1..Len(g) :
            /\ g[r][col].c # <<>>
            /\ \A q \in (r + 1)..Len(g) : g[q][col].c = <<>>
    ELSE 0

----------------------------------------------------------------------------
(* A1 notation, as Sheet.getRange(a1) reads it *)

AllLetters(s) == Len(s) > 0 /\ \A k \in 1..Len(s) : IsUpper(s[k]) \/ IsLower(s[k])
AllDigits(s) == Len(s) > 0 /\ \A k \in 1..Len(s) : IsDigit(s[k])
AllUpper(s) == Len(s) > 0 /\ \A k \in 1..Len(s) : IsUpper(s[k])

\* number of leading letters of s
RECURSIVE LetterPrefix(_)
LetterPrefix(s) ==
    IF Len(s) > 0 /\ (IsUpper(s[1]) \/ IsLower(s[1]))
    THEN 1 + LetterPrefix(Tail(s)) ELSE 0

\* a single cell reference, letters then digits, in either case
IsCellRef(s) ==
    LET n == LetterPrefix(s)
    IN  n > 0 /\ n < Len(s) /\ AllDigits(SubSeq(s, n + 1, Len(s)))
        /\ parseInt(SubSeq(s, n + 1, Len(s))) > 0

CellCol(s) == _letterToColumn(toUpperCase(SubSeq(s, 1, LetterPrefix(s))))
CellRow(s) == parseInt(SubSeq(s, LetterPrefix(s) + 1, Len(s)))

ColonAt(s) == IF InSeq(":", s) THEN IndexIn(":", s) ELSE 0

Min(a, b) == IF a < b THEN a ELSE b
Max(a, b) == IF a > b THEN a ELSE b

\* the rectangle an A1 string names: "B2" or "A1:C3"
ParseA1(s) ==
    LET k == ColonAt(s)
        lo == IF k = 0 THEN s ELSE SubSeq(s, 1, k - 1)
        hi == IF k = 0 THEN s ELSE SubSeq(s, k + 1, Len(s))
        Corners(ra, ca, rb, cb) ==
            [ok |-> TRUE, r1 |-> Min(ra, rb), c1 |-> Min(ca, cb),
             r2 |-> Max(ra, rb), c2 |-> Max(ca, cb)]
    IN  IF IsCellRef(lo) /\ IsCellRef(hi)
        THEN Corners(CellRow(lo), CellCol(lo), CellRow(hi), CellCol(hi))
        ELSE [ok |-> FALSE, r1 |-> 0, c1 |-> 0, r2 |-> 0, c2 |-> 0]

\* Sheet.getRange(a1): the rectangle, or not ok when the host throws
\* (malformed reference, or coordinates outside the sheet's grid)
getRange(g, s) ==
    LET InGrid(p) == IF p.ok /\ p.r2 <= NumRows(g) /\ p.c2 <= NumCols(g) THEN p
                     ELSE [p EXCEPT !.ok = FALSE]
    IN  InGrid(ParseA1(s))

InRect(p, r, k) == p.r1 <= r /\ r <= p.r2 /\ p.c1 <= k /\ k <= p.c2

\* Range.clear(), Range.clearContent(), Range.clearFormat(), Range.setFontWeight
ClearCell(cell) == EmptyCell
ClearContent(cell) == [cell EXCEPT !.c = <<>>]
ClearFormat(cell) == [cell EXCEPT !.f = FALSE]
SetFormat(cell) == [cell EXCEPT !.f = TRUE]

applyCell(how, cell) ==
    CASE how = "clear" -> ClearCell(cell)
      [] how = "clearContent" -> ClearContent(cell)
      [] how = "clearFormat" -> ClearFormat(cell)
      [] how = "setFontWeight" -> SetFormat(cell)

\* apply a range method to every cell of rectangle p
MapRect(g, p, how) ==
    [r \in 1..Len(g) |->
        [k \in 1..Len(g[r]) |->
            IF InRect(p, r, k) THEN applyCell(how, g[r][k]) ELSE g[r][k]]]

Rect(r1, c1, r2, c2) == [ok |-> TRUE, r1 |-> r1, c1 |-> c1, r2 |-> r2, c2 |-> c2]

----------------------------------------------------------------------------
(* Workbook: the host calls the handlers use *)

SheetNames(w) == {w.sheets[k].name : k \in 1..Len(w.sheets)}

\* Spreadsheet.getSheetByName: the sheet's position, 0 for null
getSheetByName(w, name) ==
    IF name \in SheetNames(w)
    THEN CHOOSE k \in 1..Len(w.sheets) : w.sheets[k].name = name
    ELSE 0

\* Sheet.getLastColumn(): the last column that has content, 0 on an empty sheet
getLastColumn(g) ==
    IF \E r \in 1..Len(g) : RowHasContent(g[r])
    THEN CHOOSE k \in 1..NumCols(g) :
            /\ \E r \in 1..Len(g) : g[r][k].c # <<>>
            /\ \A q \in (k + 1)..NumCols(g) : \A r \in 1..Len(g) : g[r][q].c = <<>>
    ELSE 0

\* Sheet.getDataRange(): from A1 to the last row and column with content,
\* A1 alone on an empty sheet
getDataRange(g) ==
    [numRows |-> Max(getLastRow(g), 1), numCols |-> Max(getLastColumn(g), 1)]

\* SpreadsheetApp.getActiveSheet()
getActiveSheet(w) == getSheetByName(w, w.active)

WithGrid(w, k, g) == [w EXCEPT !.sheets[k].grid = g]

\* Spreadsheet.insertSheet(name): a blank sheet, which becomes the active one
insertSheet(w, name) ==
    [sheets |-> Append(w.sheets, [name |-> name, grid |-> BlankGrid(NewRows, NewCols),
                               filter |-> NoFilter]),
     active |-> name]

RemoveAt(s, k) == SubSeq(s, 1, k - 1) \o SubSeq(s, k + 1, Len(s))

\* Spreadsheet.deleteSheet(sheet); when the active sheet goes, the first
\* remaining sheet is shown
hostDeleteSheet(w, k) ==
    LET rest == RemoveAt(w.sheets, k)
    IN  [sheets |-> rest,
         active |-> IF w.active = w.sheets[k].name /\ Len(rest) > 0
                    THEN rest[1].name ELSE w.active]

\* Sheet.clear(): contents and formatting of the whole sheet
FullRect(g) == Rect(1, 1, NumRows(g), NumCols(g))

\* Sheet.deleteRows(start, count) on a grid
hostDeleteRows(g, start, count) ==
    SubSeq(g, 1, start - 1) \o SubSeq(g, start + count, Len(g))

\* whether Sheet.deleteRows(start, count) is accepted by the host: the rows
\* exist, and at least one row of the sheet remains
CanDeleteRows(g, start, count) ==
    start >= 1 /\ count >= 1 /\ start + count - 1 <= Len(g) /\ count < Len(g)

----------------------------------------------------------------------------
(* Outcomes *)

Ret(w, msg) == [wb |-> w, ret |-> msg, threw |-> FALSE, calls |-> <<>>, flushes |-> 0]
Thrown(w, msg) == [wb |-> w, ret |-> msg, threw |-> TRUE, calls |-> <<>>, flushes |-> 0]

\* Get a sheet by name, or active sheet if no name provided.
\* 0 stands for the exception "Sheet not found: " + sheetName
_getSheet(w, sheetName) ==
    IF sheetName = "" THEN getSheetByName(w, w.active)
    ELSE getSheetByName(w, sheetName)

SheetNotFound(sheetName) == <<"Sheet not found: ", sheetName>>
RangeError(rangeStr) == <<"Range not found: ">> \o rangeStr

Out(w, msg, calls, flushes) ==
    [wb |-> w, ret |-> msg, threw |-> FALSE, calls |-> calls, flushes |-> flushes]

----------------------------------------------------------------------------
(* Actions: the untyped records the proposer sends.  A field the record    *)
(* does not carry has its default here ("" / <<>> / FALSE: all falsy).     *)

NoCondition == [given |-> FALSE, column |-> <<>>, empty |-> FALSE,
                hasValue |-> FALSE, value |-> <<>>]

NoAction ==
    [action |-> "", name |-> "", sheet |-> "", cell |-> <<>>, formula |-> <<>>,
     fillDown |-> FALSE, range |-> <<>>, values |-> <<>>, rows |-> <<>>,
     condition |-> NoCondition, type |-> "", bold |-> FALSE,
     sourceSheet |-> "", sourceRange |-> <<>>, destSheet |-> "", destCell |-> <<>>,
     valuesOnly |-> FALSE, oldName |-> "", newName |-> "", columns |-> <<>>,
     column |-> <<>>, criteria |-> <<>>, ascending |-> TRUE, missing |-> {}]

----------------------------------------------------------------------------
(* createSheet *)

\* creation that never looks for an existing sheet
createSheet_alwaysInsert(w, name) ==
    [wb |-> insertSheet(w, name), ret |-> <<"Created sheet '", name, "'">>,
     threw |-> FALSE, calls |-> <<[op |-> "insertSheet", sheet |-> name]>>,
     flushes |-> 0]

\* Create a new sheet with the given name.
\* If a sheet with that name already exists, it will be cleared and reused.
createSheet(w, name) ==
    LET existing == getSheetByName(w, name)
    IN  IF existing # 0
        THEN Out(WithGrid(w, existing,
                          MapRect(w.sheets[existing].grid,
                                  FullRect(w.sheets[existing].grid), "clear")),
                 <<"Cleared existing sheet '", name, "'">>,
                 <<[op |-> "clear", sheet |-> name]>>, 0)
        ELSE Out(insertSheet(w, name), <<"Created sheet '", name, "'">>,
                 <<[op |-> "insertSheet", sheet |-> name]>>, 0)

----------------------------------------------------------------------------
(* setFormula *)

\* the function names of the autoSpillFormulas regular expression
AutoSpillNames ==
    { <<"U","N","I","Q","U","E">>, <<"F","I","L","T","E","R">>, <<"S","O","R","T">>,
      <<"S","O","R","T","N">>, <<"S","E","Q","U","E","N","C","E">>,
      <<"A","R","R","A","Y","F","O","R","M","U","L","A">>, <<"S","P","L","I","T">>,
      <<"T","R","A","N","S","P","O","S","E">>, <<"F","L","A","T","T","E","N">> }

\* first position at or after k of s that holds no white space (regex \s*)
RECURSIVE SkipSpaces(_, _)
SkipSpaces(s, k) ==
    IF k <= Len(s) /\ IsSpace(s[k]) THEN SkipSpaces(s, k + 1) ELSE k

\* the match without the i flag
MatchesAt_caseSensitive(s, k, nm) ==
    /\ k + Len(nm) - 1 <= Len(s)
    /\ \A q \in 1..Len(nm) : s[k + q - 1] = nm[q]

\* s holds nm at position k, ignoring case (regex flag i)
MatchesAt(s, k, nm) ==
    /\ k + Len(nm) - 1 <= Len(s)
    /\ \A q \in 1..Len(nm) : upperChar(s[k + q - 1]) = nm[q]

\* /^=\s*(UNIQUE|FILTER|SORT|SORTN|SEQUENCE|ARRAYFORMULA|SPLIT|TRANSPOSE|FLATTEN)\s*\(/i
isAutoSpill(formula) ==
    /\ Len(formula) >= 1
    /\ formula[1] = "="
    /\ LET k == SkipSpaces(formula, 2)
       IN  \E nm \in AutoSpillNames :
              /\ MatchesAt(formula, k, nm)
              /\ LET q == SkipSpaces(formula, k + Len(nm))
                 IN  q <= Len(formula) /\ formula[q] = "("

\* cell.match(/^([A-Z]+)(\d+)$/)
cellMatch(cell) ==
    LET n == LetterPrefix(cell)
    IN  /\ n > 0
        /\ AllUpper(SubSeq(cell, 1, n))
        /\ n < Len(cell)
        /\ AllDigits(SubSeq(cell, n + 1, Len(cell)))

\* Range.setFormula on one cell
PutContent(g, r, k, content) == [g EXCEPT ![r][k].c = content]

\* sourceRange.copyTo(destRange): the source cell, content and format,
\* into every cell of column col from row r1 to row r2
CopyDown(g, col, r1, r2) ==
    [r \in 1..Len(g) |->
        [k \in 1..Len(g[r]) |->
            IF k = col /\ r1 <= r /\ r <= r2 THEN g[r1][col] ELSE g[r][k]]]

\* the last row the fill-down reaches (line 588)
fillDownLastRow(g, colIndex) == getLastRow(g)

\* Set a formula in a specific cell on a named sheet.
\* Optionally fills the formula down based on adjacent column data.
setFormula(w, sheetName, cell, formula, fillDown) ==
    LET sheet == getSheetByName(w, sheetName)
        set(range) == [op |-> "setFormula", sheet |-> sheetName,
                       row |-> range.r1, col |-> range.c1]
        \* lines 578-597, on the grid g1 that holds the formula
        Fill(g1, range, colIndex, startRow, lastDataRow, copies) ==
            Out(WithGrid(w, sheet,
                         IF copies THEN CopyDown(g1, colIndex, startRow, lastDataRow)
                         ELSE g1),
                <<"Set formula in ", sheetName, "!">> \o cell \o <<" (filled down)">>,
                IF copies
                THEN <<set(range), [op |-> "copyTo", sheet |-> sheetName, col |-> colIndex,
                                    from |-> startRow, to |-> lastDataRow]>>
                ELSE <<set(range)>>,
                1)
        FillDown(g1, range, colIndex, startRow, lastDataRow) ==
            Fill(g1, range, colIndex, startRow, lastDataRow,
                 cellMatch(cell) /\ lastDataRow > startRow)
        \* lines 566-602, range the result of sheet.getRange(cell)
        Write(g1, range, autoSpill) ==
            IF fillDown /\ ~autoSpill
            THEN FillDown(g1, range,
                          _letterToColumn(SubSeq(cell, 1, LetterPrefix(cell))),
                          parseInt(SubSeq(cell, LetterPrefix(cell) + 1, Len(cell))),
                          fillDownLastRow(g1, range.c1))
            ELSE IF fillDown /\ autoSpill
            THEN Out(WithGrid(w, sheet, g1),
                     <<"Set formula in ", sheetName, "!">> \o cell
                         \o <<" (auto-spill, fillDown skipped)">>,
                     <<set(range)>>, 0)
            ELSE Out(WithGrid(w, sheet, g1),
                     <<"Set formula in ", sheetName, "!">> \o cell, <<set(range)>>, 0)
        OnRange(g0, range) ==
            IF ~range.ok THEN Thrown(w, RangeError(cell))
            ELSE Write(PutContent(g0, range.r1, range.c1, formula), range,
                       isAutoSpill(formula))
    IN  IF sheet = 0 THEN Ret(w, <<"Sheet '", sheetName, "' not found">>)
        ELSE OnRange(w.sheets[sheet].grid, getRange(w.sheets[sheet].grid, cell))

----------------------------------------------------------------------------
(* setValues, formatRange, readRange *)

\* Range.setValues(values): values must have the range's dimensions
ValuesFit(p, values) ==
    /\ Len(values) = p.r2 - p.r1 + 1
    /\ \A r \in 1..Len(values) : Len(values[r]) = p.c2 - p.c1 + 1

PutValues(g, p, values) ==
    [r \in 1..Len(g) |->
        [k \in 1..Len(g[r]) |->
            IF InRect(p, r, k)
            THEN [g[r][k] EXCEPT !.c = values[r - p.r1 + 1][k - p.c1 + 1]]
            ELSE g[r][k]]]

\* Set multiple values in a range on a named sheet.
setValues(w, sheetName, rangeStr, values) ==
    LET sheet == getSheetByName(w, sheetName)
        OnRange(g0, range) ==
            IF ~range.ok THEN Thrown(w, RangeError(rangeStr))
            ELSE IF ~ValuesFit(range, values)
            THEN Thrown(w, <<"The number of rows or columns in the data does not match the range">>)
            ELSE Out(WithGrid(w, sheet, PutValues(g0, range, values)),
                     <<"Set values in ", sheetName, "!">> \o rangeStr,
                     <<[op |-> "setValues", sheet |-> sheetName]>>, 0)
    IN  IF sheet = 0 THEN Ret(w, <<"Sheet '", sheetName, "' not found">>)
        ELSE OnRange(w.sheets[sheet].grid, getRange(w.sheets[sheet].grid, rangeStr))

\* Format a range on a named sheet (of the options, bold is modelled; the
\* other options set formatting the same way)
formatRange(w, sheetName, rangeStr, options) ==
    LET sheet == getSheetByName(w, sheetName)
        OnRange(g0, range) ==
            IF ~range.ok THEN Thrown(w, RangeError(rangeStr))
            ELSE Out(WithGrid(w, sheet,
                              IF options.bold THEN MapRect(g0, range, "setFontWeight") ELSE g0),
                     <<"Formatted ", sheetName, "!">> \o rangeStr,
                     IF options.bold THEN <<[op |-> "setFontWeight", sheet |-> sheetName]>>
                     ELSE <<>>, 0)
    IN  IF sheet = 0 THEN Ret(w, <<"Sheet '", sheetName, "' not found">>)
        ELSE OnRange(w.sheets[sheet].grid, getRange(w.sheets[sheet].grid, rangeStr))

\* the cells of rectangle p, row by row, each followed by ","
RECURSIVE JoinCells(_, _, _, _)
JoinCells(g, p, r, k) ==
    IF r > p.r2 THEN <<>>
    ELSE IF k > p.c2 THEN <<";">> \o JoinCells(g, p, r + 1, p.c1)
    ELSE g[r][k].c \o <<",">> \o JoinCells(g, p, r, k + 1)

\* Read values from a range on a named sheet (for verification), as the
\* JSON text executeSheetAction returns for it
readRange(w, sheetName, rangeStr) ==
    LET sheet == getSheetByName(w, sheetName)
        OnRange(g0, range) ==
            IF ~range.ok THEN Thrown(w, RangeError(rangeStr))
            ELSE Ret(w, <<"{sheet:", sheetName, ",range:">> \o rangeStr
                        \o <<",values:">> \o JoinCells(g0, range, range.r1, range.c1)
                        \o <<"}">>)
    IN  IF sheet = 0
        THEN Ret(w, <<"{error:Sheet '", sheetName, "' not found", ",values:[]}">>)
        ELSE OnRange(w.sheets[sheet].grid, getRange(w.sheets[sheet].grid, rangeStr))

----------------------------------------------------------------------------
(* _deleteRows *)

\* rows.sort(function(a, b) { return b - a; })
RECURSIVE InsertDesc(_, _)
InsertDesc(x, s) ==
    IF Len(s) = 0 THEN <<x>>
    ELSE IF x > s[1] THEN <<x>> \o s
    ELSE <<s[1]>> \o InsertDesc(x, Tail(s))

RECURSIVE sortDescending(_)
sortDescending(s) ==
    IF Len(s) = 0 THEN <<>>
    ELSE InsertDesc(s[Len(s)], sortDescending(SubSeq(s, 1, Len(s) - 1)))

\* the inner while loop (lines 891-894): length of the batch that starts at
\* position k (1-based) of the sorted rows
RECURSIVE batchCount(_, _, _)
batchCount(rows, k, count) ==
    IF k + count <= Len(rows) /\ rows[k + count] = rows[k] - count
    THEN batchCount(rows, k, count + 1)
    ELSE count

\* the outer while loop (lines 889-898), from position k of the sorted rows;
\* a host exception leaves the deletes already made in place
RECURSIVE deleteLoop(_, _, _, _, _)
deleteLoop(g, rows, k, deleted, calls) ==
    LET Batch(start, count) ==
            IF ~CanDeleteRows(g, start - count + 1, count)
            THEN [grid |-> g, deleted |-> deleted, calls |-> calls, threw |-> TRUE]
            ELSE deleteLoop(hostDeleteRows(g, start - count + 1, count), rows, k + count,
                            deleted + count,
                            Append(calls, [op |-> "deleteRows",
                                           start |-> start - count + 1, count |-> count]))
    IN  IF k > Len(rows)
        THEN [grid |-> g, deleted |-> deleted, calls |-> calls, threw |-> FALSE]
        ELSE Batch(rows[k], batchCount(rows, k, 1))

\* the condition scan (lines 865-878): 1-indexed rows lastRow down to 2
\* whose cell in column colIndex matches
RECURSIVE scanCondition(_, _, _, _)
scanCondition(g, colIndex, condition, r) ==
    IF r < 2 THEN <<>>
    ELSE
    LET cellVal == g[r][colIndex].c
        shouldDelete == IF condition.empty THEN cellVal = <<>>
                        ELSE IF condition.hasValue THEN cellVal = condition.value
                        ELSE FALSE
    IN  (IF shouldDelete THEN <<r>> ELSE <<>>)
        \o scanCondition(g, colIndex, condition, r - 1)

\* Sheet.deleteColumn(k) on a grid
hostDeleteColumn(g, k) ==
    [r \in 1..Len(g) |-> SubSeq(g[r], 1, k - 1) \o SubSeq(g[r], k + 1, Len(g[r]))]

\* whether Sheet.deleteColumn(k) is accepted by the host: the column exists,
\* and at least one column of the sheet remains
CanDeleteColumn(g, k) == k >= 1 /\ k <= NumCols(g) /\ NumCols(g) > 1

\* columns.map(function(c) { return _letterToColumn(c.toUpperCase()); })
columnIndices(columns) ==
    [k \in 1..Len(columns) |-> _letterToColumn(toUpperCase(columns[k]))]

\* the for loop of _deleteColumns (lines 921-923), from position k of the
\* sorted indices; a host exception leaves the deletes already made in place
RECURSIVE deleteColumnLoop(_, _, _, _)
deleteColumnLoop(g, indices, k, calls) ==
    IF k > Len(indices) THEN [grid |-> g, calls |-> calls, threw |-> FALSE]
    ELSE IF ~CanDeleteColumn(g, indices[k])
    THEN [grid |-> g, calls |-> calls, threw |-> TRUE]
    ELSE deleteColumnLoop(hostDeleteColumn(g, indices[k]), indices, k + 1,
                          Append(calls, [op |-> "deleteColumn", index |-> indices[k]]))

\* columns.join(", ")
RECURSIVE joinColumns(_)
joinColumns(columns) ==
    IF Len(columns) = 0 THEN <<>>
    ELSE IF Len(columns) = 1 THEN columns[1]
    ELSE columns[1] \o <<", ">> \o joinColumns(Tail(columns))

\* Delete columns by column letters.
\* Deletes right-to-left to preserve indices.
\* columns is an array of letter strings; <<>> stands for no columns field
\* (a bare string, which line 913 wraps into an array, is sent as the array).
_deleteColumns(w, sheetName, columns) ==
    LET sheet == _getSheet(w, sheetName)
        Deleted(run) ==
            IF run.threw
            THEN [wb |-> WithGrid(w, sheet, run.grid),
                  ret |-> <<"Those columns are out of bounds">>,
                  threw |-> TRUE, calls |-> run.calls, flushes |-> 0]
            ELSE Out(WithGrid(w, sheet, run.grid),
                     <<"Deleted column(s) ">> \o joinColumns(columns)
                         \o <<" from ", w.sheets[sheet].name>>,
                     run.calls, 0)
    IN  IF sheet = 0 THEN Thrown(w, SheetNotFound(sheetName))
        ELSE IF Len(columns) = 0 THEN Ret(w, <<"Error: No columns to delete">>)
        ELSE Deleted(deleteColumnLoop(w.sheets[sheet].grid,
                                      sortDescending(columnIndices(columns)), 1, <<>>))

\* Delete rows by row numbers or condition.
\* Deletes bottom-to-top to preserve indices.
_deleteRows(w, sheetName, rows, condition) ==
    LET sheet == _getSheet(w, sheetName)
        Deleted(run) ==
            IF run.threw
            THEN [wb |-> WithGrid(w, sheet, run.grid),
                  ret |-> <<"Those rows are out of bounds">>,
                  threw |-> TRUE, calls |-> run.calls, flushes |-> 0]
            ELSE Out(WithGrid(w, sheet, run.grid),
                     <<"Deleted ", ToString(run.deleted), " row(s) from ",
                       w.sheets[sheet].name>>,
                     run.calls, 0)
        Delete(g0, rows1) ==
            IF Len(rows1) = 0 THEN Ret(w, <<"No rows to delete">>)
            ELSE Deleted(deleteLoop(g0, sortDescending(rows1), 1, 0, <<>>))
        Scan(g0, colIndex, lastRow) ==
            IF lastRow < 1 \/ colIndex < 1 \/ colIndex > NumCols(g0)
            THEN Thrown(w, <<"The coordinates of the range are outside the dimensions of the sheet">>)
            ELSE Delete(g0, scanCondition(g0, colIndex, condition, lastRow))
    IN  IF sheet = 0 THEN Thrown(w, SheetNotFound(sheetName))
        ELSE IF condition.given
        THEN Scan(w.sheets[sheet].grid, _letterToColumn(toUpperCase(condition.column)),
                  getLastRow(w.sheets[sheet].grid))
        ELSE Delete(w.sheets[sheet].grid, rows)

----------------------------------------------------------------------------
(* _clearRange, _copyRange *)

\* Clear contents, formatting, or both from a range.
_clearRange(w, sheetName, rangeStr, type) ==
    LET sheet == _getSheet(w, sheetName)
        OnRange(g0, range) ==
            IF ~range.ok THEN Thrown(w, RangeError(rangeStr))
            ELSE Out(WithGrid(w, sheet,
                              IF type = "contents" THEN MapRect(g0, range, "clearContent")
                              ELSE IF type = "formatting"
                              THEN MapRect(g0, range, "clearFormat")
                              ELSE MapRect(g0, range, "clear")),
                     <<"Cleared ", IF type = "" THEN "all" ELSE type, " from ",
                       sheetName, "!">> \o rangeStr,
                     <<[op |-> "clear", sheet |-> sheetName]>>, 0)
    IN  IF sheet = 0 THEN Thrown(w, SheetNotFound(sheetName))
        ELSE OnRange(w.sheets[sheet].grid, getRange(w.sheets[sheet].grid, rangeStr))

\* srcRange.copyTo(dest): the source block lands with its top-left cell on the
\* destination cell; valuesOnly pastes contents and keeps the target's format
PasteBlock(gd, gs, src, dr, dc, valuesOnly) ==
    [r \in 1..Len(gd) |->
        [k \in 1..Len(gd[r]) |->
            IF /\ dr <= r /\ r <= dr + (src.r2 - src.r1)
               /\ dc <= k /\ k <= dc + (src.c2 - src.c1)
            THEN LET from == gs[src.r1 + (r - dr)][src.c1 + (k - dc)]
                 IN  IF valuesOnly THEN [gd[r][k] EXCEPT !.c = from.c] ELSE from
            ELSE gd[r][k]]]

\* Copy a range to another location.
_copyRange(w, sourceSheetName, sourceRangeStr, destSheetName, destCell, valuesOnly) ==
    LET srcSheet == getSheetByName(w, sourceSheetName)
        destSheet == getSheetByName(w, destSheetName)
        OnRanges(gs, gd, srcRange, dest) ==
            IF ~srcRange.ok THEN Thrown(w, RangeError(sourceRangeStr))
            ELSE IF ~dest.ok THEN Thrown(w, RangeError(destCell))
            ELSE Out(WithGrid(w, destSheet,
                              PasteBlock(gd, gs, srcRange, dest.r1, dest.c1, valuesOnly)),
                     <<"Copied ", sourceSheetName, "!">> \o sourceRangeStr
                         \o <<" to ", destSheetName, "!">> \o destCell,
                     <<[op |-> "copyTo", sheet |-> destSheetName]>>, 0)
    IN  IF srcSheet = 0 THEN Ret(w, <<"Source sheet not found: ", sourceSheetName>>)
        ELSE IF destSheet = 0
        THEN Ret(w, <<"Destination sheet not found: ", destSheetName>>)
        ELSE OnRanges(w.sheets[srcSheet].grid, w.sheets[destSheet].grid,
                      getRange(w.sheets[srcSheet].grid, sourceRangeStr),
                      getRange(w.sheets[destSheet].grid, destCell))

----------------------------------------------------------------------------
(* Sheet management *)

\* Rename a sheet.  Sheet.setName throws on an empty name and on the name
\* of another sheet.
_renameSheet(w, oldName, newName) ==
    LET sheet == getSheetByName(w, oldName)
    IN  IF sheet = 0 THEN Ret(w, <<"Sheet not found: ", oldName>>)
        ELSE IF newName = "" \/ (newName # oldName /\ newName \in SheetNames(w))
        THEN Thrown(w, <<"A sheet with the name ", newName, " already exists">>)
        ELSE Out([sheets |-> [w.sheets EXCEPT ![sheet].name = newName],
                  active |-> IF w.active = oldName THEN newName ELSE w.active],
                 <<"Renamed sheet '", oldName, "' to '", newName, "'">>,
                 <<[op |-> "setName", sheet |-> oldName]>>, 0)

\* the guard with its comparison off by one
isLastSheet_strict(w) == Len(w.sheets) < 1

\* the guard of _deleteSheet (line 1150)
isLastSheet(w) == Len(w.sheets) <= 1

\* Delete a sheet. Guards against deleting the last sheet.
_deleteSheet(w, name) ==
    LET sheet == getSheetByName(w, name)
    IN  IF sheet = 0 THEN Ret(w, <<"Sheet not found: ", name>>)
        ELSE IF isLastSheet(w) THEN Ret(w, <<"Cannot delete the last sheet">>)
        ELSE Out(hostDeleteSheet(w, sheet), <<"Deleted sheet '", name, "'">>,
                 <<[op |-> "deleteSheet", sheet |-> name]>>, 0)

----------------------------------------------------------------------------
(* _applyFilter and _applySort *)

\* a JavaScript value that may be undefined: an action field the payload
\* leaves out, or values[r][c] past the end of the row
Undefined == [undef |-> TRUE, s |-> <<>>]
Defined(s) == [undef |-> FALSE, s |-> s]
Field(action, name, s) == IF name \in action.missing THEN Undefined ELSE Defined(s)

\* what \s matches, among the characters the model uses
IsBlankChar(ch) == ch = " " \/ ch = "\n"

RECURSIVE trimLeft(_)
trimLeft(s) == IF Len(s) > 0 /\ IsBlankChar(s[1]) THEN trimLeft(Tail(s)) ELSE s

RECURSIVE trimRight(_)
trimRight(s) ==
    IF Len(s) > 0 /\ IsBlankChar(s[Len(s)]) THEN trimRight(SubSeq(s, 1, Len(s) - 1))
    ELSE s

\* String.prototype.trim
trim(s) == trimRight(trimLeft(s))

lowerChar(ch) == IF IsUpper(ch) THEN LowerLetters[IndexIn(ch, UpperLetters)] ELSE ch

toLowerCase(s) == [k \in 1..Len(s) |-> lowerChar(s[k])]

\* Number(x) for undefined, the empty string, unsigned decimal integers and
\* words: NaN, 0, the integer, NaN
Number(x) ==
    LET t == trim(x.s)
    IN  IF x.undef THEN [nan |-> TRUE, n |-> 0]
        ELSE IF t = <<>> THEN [nan |-> FALSE, n |-> 0]
        ELSE IF \A k \in 1..Len(t) : IsDigit(t[k]) THEN [nan |-> FALSE, n |-> parseInt(t)]
        ELSE [nan |-> TRUE, n |-> 0]

\* String(x)
String(x) ==
    IF x.undef THEN <<"u", "n", "d", "e", "f", "i", "n", "e", "d">> ELSE x.s

\* the alternatives of the first group of the pattern of line 281, in order
FilterOperators ==
    << <<">", "=">>, <<"<", "=">>, <<"!", "=">>, <<">">>, <<"<">>, <<"=">> >>

StartsWith(s, p) == Len(s) >= Len(p) /\ SubSeq(s, 1, Len(p)) = p

\* \s*(.+)$ on s: the numbers of leading blanks \s* can take so that what is
\* left is not empty and holds no line break
RestStarts(s) ==
    { k \in 0..Len(s) :
        /\ \A q \in 1..k : IsBlankChar(s[q])
        /\ k < Len(s)
        /\ \A q \in (k + 1)..Len(s) : s[q] # "\n" }

SetMax(S) == CHOOSE x \in S : \A y \in S : y <= x
SetMin(S) == CHOOSE x \in S : \A y \in S : x <= y

\* criteria.match(/^(>=|<=|!=|>|<|=)?\s*(.+)$/): the first alternative that
\* lets the rest match, else no operator; \s* is greedy.  An operator of <<>>
\* is the undefined group.
criteriaMatch(criteria) ==
    LET After(k) == SubSeq(criteria, Len(FilterOperators[k]) + 1, Len(criteria))
        With(op, rest) ==
            [ok |-> TRUE, operator |-> op,
             value |-> SubSeq(rest, SetMax(RestStarts(rest)) + 1, Len(rest))]
        ops == { k \in 1..Len(FilterOperators) :
                    /\ StartsWith(criteria, FilterOperators[k])
                    /\ RestStarts(After(k)) # {} }
    IN  IF ops # {} THEN With(FilterOperators[SetMin(ops)], After(SetMin(ops)))
        ELSE IF RestStarts(criteria) # {} THEN With(<<>>, criteria)
        ELSE [ok |-> FALSE, operator |-> <<>>, value |-> <<>>]

\* the comparisons of lines 299-304 on numbers, one of which may be NaN
numSatisfies(operator, cellNum, numValue) ==
    IF cellNum.nan THEN operator = <<"!", "=">>
    ELSE IF operator = <<">">> THEN cellNum.n > numValue.n
    ELSE IF operator = <<">", "=">> THEN cellNum.n >= numValue.n
    ELSE IF operator = <<"<">> THEN cellNum.n < numValue.n
    ELSE IF operator = <<"<", "=">> THEN cellNum.n <= numValue.n
    ELSE IF operator = <<"=">> THEN cellNum.n = numValue.n
    ELSE cellNum.n # numValue.n

\* shouldHide after lines 298-310
shouldHide(operator, value, cellVal) ==
    LET numValue == Number(Defined(value))
        isNum == ~numValue.nan /\ value # <<>>
        cellStr == toLowerCase(String(cellVal))
        matchStr == toLowerCase(value)
    IN  IF isNum THEN ~numSatisfies(operator, Number(cellVal), numValue)
        ELSE IF operator = <<"=">> THEN cellStr # matchStr
        ELSE IF operator = <<"!", "=">> THEN cellStr = matchStr
        ELSE FALSE

\* dataRange.getValues()[r - 1][c - 1]
valueAt(g, dataRange, r, c) ==
    IF c \in 1..dataRange.numCols THEN Defined(g[r][c].c) ELSE Undefined

\* the rows the loop of line 293 visits, taking the header row as well
isLoopRow_withHeader(dataRange, r) == r >= 1 /\ r <= dataRange.numRows

\* the rows the loop of line 293 visits: r = 1 .. values.length - 1 (0-based)
isLoopRow(dataRange, r) == r >= 2 /\ r <= dataRange.numRows

\* the loop of lines 293-315, from row r (1-based)
RECURSIVE hideLoop(_, _, _, _, _, _, _)
hideLoop(g, dataRange, relativeCol, operator, value, r, hideValues) ==
    IF r > dataRange.numRows THEN hideValues
    ELSE
    LET cellVal == valueAt(g, dataRange, r, relativeCol)
    IN  hideLoop(g, dataRange, relativeCol, operator, value, r + 1,
                 IF isLoopRow(dataRange, r) /\ shouldHide(operator, value, cellVal)
                 THEN Append(hideValues, String(cellVal))
                 ELSE hideValues)

TypeErrorOf(method) ==
    <<"TypeError: Cannot read properties of undefined (reading '", method, "')">>

\* Filter.setColumnFilterCriteria(relativeCol, criteria)
CanSetColumnFilter(filter, relativeCol) == relativeCol \in 1..filter.numCols

\* Filter the sheet by a column using Google Sheets built-in filter.
_applyFilter(w, columnLetter, criteria) ==
    LET sheet == getActiveSheet(w)
        g == w.sheets[sheet].grid
        dataRange == getDataRange(g)
        removed == [w EXCEPT !.sheets[sheet].filter = NoFilter]
        colIndex == _letterToColumn(toUpperCase(columnLetter.s))
        startCol == 1
        relativeCol == colIndex - startCol + 1
        created == [on |-> TRUE, numRows |-> dataRange.numRows,
                    numCols |-> dataRange.numCols, column |-> 0, hidden |-> <<>>]
        filtered == [w EXCEPT !.sheets[sheet].filter = created]
        match == criteriaMatch(criteria.s)
        operator == IF match.operator = <<>> THEN <<"=">> ELSE match.operator
        Build(hideValues) ==
            IF Len(hideValues) = 0
            THEN Out(filtered, <<"Filtered column ">> \o columnLetter.s \o <<" where ">>
                               \o criteria.s,
                     <<[op |-> "createFilter", sheet |-> w.sheets[sheet].name]>>, 0)
            ELSE IF ~CanSetColumnFilter(created, relativeCol)
            THEN [wb |-> filtered, ret |-> <<"Exception: column out of the filter range">>,
                  threw |-> TRUE,
                  calls |-> <<[op |-> "createFilter", sheet |-> w.sheets[sheet].name]>>,
                  flushes |-> 0]
            ELSE Out([w EXCEPT !.sheets[sheet].filter =
                         [created EXCEPT !.column = relativeCol, !.hidden = hideValues]],
                     <<"Filtered column ">> \o columnLetter.s \o <<" where ">>
                        \o criteria.s,
                     <<[op |-> "createFilter", sheet |-> w.sheets[sheet].name],
                       [op |-> "setColumnFilterCriteria", sheet |-> w.sheets[sheet].name]>>,
                     0)
    IN  IF columnLetter.undef THEN Thrown(removed, TypeErrorOf("toUpperCase"))
        ELSE IF criteria.undef THEN Thrown(filtered, TypeErrorOf("match"))
        ELSE IF ~match.ok THEN Ret(filtered, <<"Invalid criteria: ">> \o criteria.s)
        ELSE Build(hideLoop(g, dataRange, relativeCol, operator, trim(match.value),
                            1, <<>>))

\* the order Range.sort puts two cell contents in: numbers before text, text
\* without regard to case, blank cells after both
RECURSIVE textLess(_, _)
textLess(a, b) ==
    IF Len(b) = 0 THEN FALSE
    ELSE IF Len(a) = 0 THEN TRUE
    ELSE IF lowerChar(a[1]) = lowerChar(b[1]) THEN textLess(Tail(a), Tail(b))
    ELSE charCode(lowerChar(a[1])) < charCode(lowerChar(b[1]))

sortClass(c) == IF c = <<>> THEN 2 ELSE IF Number(Defined(c)).nan THEN 1 ELSE 0

valueLess(a, b) ==
    IF sortClass(a) # sortClass(b) THEN sortClass(a) < sortClass(b)
    ELSE IF sortClass(a) = 0 THEN Number(Defined(a)).n < Number(Defined(b)).n
    ELSE IF sortClass(a) = 1 THEN textLess(a, b)
    ELSE FALSE

\* whether a row with key a goes before a row with key b; blanks stay last in
\* both directions
sortsBefore(a, b, ascending) ==
    IF a = <<>> \/ b = <<>> THEN a # <<>> /\ b = <<>>
    ELSE IF ascending THEN valueLess(a, b) ELSE valueLess(b, a)

\* a stable insertion of row into the sorted rows, by the key in column col
insertSorted(sorted, row, col, ascending) ==
    LET later == { k \in 1..Len(sorted) : sortsBefore(row[col].c, sorted[k][col].c, ascending) }
        at == IF later = {} THEN Len(sorted) + 1 ELSE SetMin(later)
    IN  SubSeq(sorted, 1, at - 1) \o <<row>> \o SubSeq(sorted, at, Len(sorted))

RECURSIVE sortRows(_, _, _, _, _)
sortRows(rows, k, col, ascending, sorted) ==
    IF k > Len(rows) THEN sorted
    ELSE sortRows(rows, k + 1, col, ascending, insertSorted(sorted, rows[k], col, ascending))

\* the range sorted including the header row: getRange(1, startCol, numRows, numCols)
sortFirstRow_withHeader(numRows) == IF numRows > 1 THEN 1 ELSE 0

\* the first row of sortRange (line 341), 0 when nothing is sorted (line 340)
sortFirstRow(numRows) == IF numRows > 1 THEN 2 ELSE 0

\* Range.sort({column, ascending}) on rows first..numRows, columns 1..numCols:
\* the rows of the range are reordered, cells outside it stay
hostSort(g, first, numRows, numCols, colIndex, ascending) ==
    LET part == [k \in 1..(numRows - first + 1) |-> SubSeq(g[first + k - 1], 1, numCols)]
        sorted == sortRows(part, 1, colIndex, ascending, <<>>)
    IN  [r \in 1..Len(g) |->
            IF r >= first /\ r <= numRows
            THEN sorted[r - first + 1] \o SubSeq(g[r], numCols + 1, Len(g[r]))
            ELSE g[r]]

\* Sort the sheet by a column.
_applySort(w, columnLetter, ascending) ==
    LET sheet == getActiveSheet(w)
        g == w.sheets[sheet].grid
        dataRange == getDataRange(g)
        colIndex == _letterToColumn(toUpperCase(columnLetter.s))
        numRows == dataRange.numRows
        numCols == dataRange.numCols
        first == sortFirstRow(numRows)
        msg == <<"Sorted by column ">> \o columnLetter.s
                 \o <<IF ascending THEN " (A-Z)" ELSE " (Z-A)">>
    IN  IF columnLetter.undef THEN Thrown(w, TypeErrorOf("toUpperCase"))
        ELSE IF first = 0 THEN Ret(w, msg)
        ELSE IF colIndex \notin 1..numCols
        THEN Thrown(w, <<"Exception: column out of the sort range">>)
        ELSE Out(WithGrid(w, sheet, hostSort(g, first, numRows, numCols, colIndex, ascending)),
                 msg, <<[op |-> "sort", sheet |-> w.sheets[sheet].name]>>, 0)

----------------------------------------------------------------------------
(* executeSheetAction *)

\* every tag the switch of executeSheetAction has a case for
RecognizedTags ==
    {"filter", "sort", "highlight", "setValue", "insertColumn", "chart",
     "createChart", "createSheet", "setFormula", "setValues", "autoFillDown",
     "formatRange", "readRange", "deleteCharts", "numberFormat", "setBorders",
     "freeze", "autoResize", "deleteRows", "deleteColumns", "mergeCells",
     "clearRange", "copyRange", "conditionalFormat", "dataValidation",
     "renameSheet", "copySheet", "deleteSheet", "findReplace"}

\* the tags whose handlers this model carries
ModelledTags ==
    {"filter", "sort", "createSheet", "setFormula", "setValues", "formatRange",
     "readRange", "deleteRows", "deleteColumns", "clearRange", "copyRange", "renameSheet",
     "deleteSheet"}

\* what executeSheetAction is called with: an action object, or (a plan step
\* whose "action" field is itself the tag) a bare string
ObjArg(a) == [isObj |-> TRUE, act |-> a, str |-> ""]
StrArg(tag) == [isObj |-> FALSE, act |-> NoAction, str |-> tag]

\* the default branch of the switch (line 258)
unknownAction(w, tag) == Ret(w, <<"Unknown action: ", tag>>)

\* Execute a sheet action from the AI.  A string has no "action" property, so
\* it takes the first return, as the empty string and an object without a tag do.
executeSheetAction(w, arg) ==
    IF ~arg.isObj \/ arg.act.action = "" THEN Ret(w, <<"No action provided">>)
    ELSE
    LET action == arg.act
        tag == action.action
    IN  IF tag = "filter"
        THEN _applyFilter(w, Field(action, "column", action.column),
                          Field(action, "criteria", action.criteria))
        ELSE IF tag = "sort"
        THEN _applySort(w, Field(action, "column", action.column),
                        "ascending" \in action.missing \/ action.ascending)
        ELSE IF tag = "createSheet" THEN createSheet(w, action.name)
        ELSE IF tag = "setFormula"
        THEN setFormula(w, action.sheet, action.cell, action.formula, action.fillDown)
        ELSE IF tag = "setValues"
        THEN setValues(w, action.sheet, action.range, action.values)
        ELSE IF tag = "formatRange"
        THEN formatRange(w, action.sheet, action.range, action)
        ELSE IF tag = "readRange" THEN readRange(w, action.sheet, action.range)
        ELSE IF tag = "deleteRows"
        THEN _deleteRows(w, action.sheet, action.rows, action.condition)
        ELSE IF tag = "deleteColumns" THEN _deleteColumns(w, action.sheet, action.columns)
        ELSE IF tag = "clearRange"
        THEN _clearRange(w, action.sheet, action.range, action.type)
        ELSE IF tag = "copyRange"
        THEN _copyRange(w, action.sourceSheet, action.sourceRange, action.destSheet,
                        action.destCell, action.valuesOnly)
        ELSE IF tag = "renameSheet" THEN _renameSheet(w, action.oldName, action.newName)
        ELSE IF tag = "deleteSheet" THEN _deleteSheet(w, action.name)
        ELSE unknownAction(w, tag)

----------------------------------------------------------------------------
(* undoSheetActions *)

NoLedger == [given |-> FALSE, sheetsToDelete |-> <<>>, cellsToClear |-> <<>>]

\* whether the undo loop may delete a sheet now (line 1226)
undoMayDelete(w) == Len(w.sheets) > 1

\* the first loop stepping over the entry that follows a deletion
RECURSIVE undoDeleteLoop_skipAfterDelete(_, _, _, _)
undoDeleteLoop_skipAfterDelete(w, sheetsToDelete, k, res) ==
    IF k > Len(sheetsToDelete) THEN [wb |-> w, res |-> res]
    ELSE
    LET sheet == getSheetByName(w, sheetsToDelete[k])
    IN  IF sheetsToDelete[k] \notin SheetNames(w)
        THEN undoDeleteLoop_skipAfterDelete(w, sheetsToDelete, k + 1, res)
        ELSE IF undoMayDelete(w)
        THEN undoDeleteLoop_skipAfterDelete(
                 hostDeleteSheet(w, sheet), sheetsToDelete, k + 2,
                 Append(res, <<"Deleted sheet '", sheetsToDelete[k], "'">>))
        ELSE undoDeleteLoop_skipAfterDelete(
                 w, sheetsToDelete, k + 1,
                 Append(res, <<"Cannot delete '", sheetsToDelete[k], "' (last sheet)">>))

\* the first loop (lines 1222-1233), from position k of sheetsToDelete
RECURSIVE undoDeleteLoop(_, _, _, _)
undoDeleteLoop(w, sheetsToDelete, k, res) ==
    IF k > Len(sheetsToDelete) THEN [wb |-> w, res |-> res]
    ELSE
    LET sheet == getSheetByName(w, sheetsToDelete[k])
    IN  IF sheetsToDelete[k] \notin SheetNames(w)
        THEN undoDeleteLoop(w, sheetsToDelete, k + 1, res)
        ELSE IF undoMayDelete(w)
        THEN undoDeleteLoop(hostDeleteSheet(w, sheet), sheetsToDelete, k + 1,
                            Append(res, <<"Deleted sheet '", sheetsToDelete[k], "'">>))
        ELSE undoDeleteLoop(w, sheetsToDelete, k + 1,
                            Append(res, <<"Cannot delete '", sheetsToDelete[k],
                                          "' (last sheet)">>))

\* the second loop with clearContent() in place of clear(): formats stay
RECURSIVE undoClearLoop_contentOnly(_, _, _, _)
undoClearLoop_contentOnly(w, cellsToClear, k, res) ==
    IF k > Len(cellsToClear) THEN [wb |-> w, res |-> res, threw |-> FALSE]
    ELSE
    LET entry == cellsToClear[k]
        targetSheet == getSheetByName(w, entry.sheet)
        Clear(g0, range) ==
            IF ~range.ok THEN [wb |-> w, res |-> res, threw |-> TRUE]
            ELSE undoClearLoop_contentOnly(
                     WithGrid(w, targetSheet, MapRect(g0, range, "clearContent")),
                     cellsToClear, k + 1,
                     Append(res, <<"Cleared ", entry.sheet, "!">> \o entry.range))
    IN  IF targetSheet = 0 THEN undoClearLoop_contentOnly(w, cellsToClear, k + 1, res)
        ELSE Clear(w.sheets[targetSheet].grid,
                   getRange(w.sheets[targetSheet].grid, entry.range))

\* the second loop (lines 1237-1244), from position k of cellsToClear; a
\* range the host rejects throws out of the function
RECURSIVE undoClearLoop(_, _, _, _)
undoClearLoop(w, cellsToClear, k, res) ==
    IF k > Len(cellsToClear) THEN [wb |-> w, res |-> res, threw |-> FALSE]
    ELSE
    LET entry == cellsToClear[k]
        targetSheet == getSheetByName(w, entry.sheet)
        Clear(g0, range) ==
            IF ~range.ok THEN [wb |-> w, res |-> res, threw |-> TRUE]
            ELSE undoClearLoop(WithGrid(w, targetSheet, MapRect(g0, range, "clear")),
                               cellsToClear, k + 1,
                               Append(res, <<"Cleared ", entry.sheet, "!">> \o entry.range))
    IN  IF targetSheet = 0 THEN undoClearLoop(w, cellsToClear, k + 1, res)
        ELSE Clear(w.sheets[targetSheet].grid,
                   getRange(w.sheets[targetSheet].grid, entry.range))

\* results.join("; ")
RECURSIVE joinResults(_)
joinResults(res) ==
    IF Len(res) = 0 THEN <<>>
    ELSE IF Len(res) = 1 THEN res[1]
    ELSE res[1] \o <<"; ">> \o joinResults(Tail(res))

\* the undo that gives up once the last-sheet guard has refused a deletion
undoSheetActions_stopAtGuard(w, undoInfo) ==
    IF ~undoInfo.given THEN Ret(w, <<"Nothing to undo">>)
    ELSE
    LET Cleared(clr) ==
            IF clr.threw THEN Thrown(clr.wb, <<"Range not found">>)
            ELSE IF Len(clr.res) = 0 THEN Ret(clr.wb, <<"Nothing to undo">>)
            ELSE Ret(clr.wb, joinResults(clr.res))
        Deleted(del) ==
            IF \E k \in 1..Len(del.res) : del.res[k][1] = "Cannot delete '"
            THEN Ret(del.wb, joinResults(del.res))
            ELSE Cleared(undoClearLoop(del.wb, undoInfo.cellsToClear, 1, del.res))
    IN  Deleted(undoDeleteLoop(w, undoInfo.sheetsToDelete, 1, <<>>))

\* the undo without the test of line 1246
undoSheetActions_noEmptyCheck(w, undoInfo) ==
    IF ~undoInfo.given THEN Ret(w, <<"Nothing to undo">>)
    ELSE
    LET Cleared(clr) ==
            IF clr.threw THEN Thrown(clr.wb, <<"Range not found">>)
            ELSE Ret(clr.wb, joinResults(clr.res))
        Deleted(del) == Cleared(undoClearLoop(del.wb, undoInfo.cellsToClear, 1, del.res))
    IN  Deleted(undoDeleteLoop(w, undoInfo.sheetsToDelete, 1, <<>>))

\* Undo agent actions by deleting created sheets and clearing modified cells.
undoSheetActions(w, undoInfo) ==
    IF ~undoInfo.given THEN Ret(w, <<"Nothing to undo">>)
    ELSE
    LET Cleared(clr) ==
            IF clr.threw THEN Thrown(clr.wb, <<"Range not found">>)
            ELSE IF Len(clr.res) = 0 THEN Ret(clr.wb, <<"Nothing to undo">>)
            ELSE Ret(clr.wb, joinResults(clr.res))
        Deleted(del) == Cleared(undoClearLoop(del.wb, undoInfo.cellsToClear, 1, del.res))
    IN  Deleted(undoDeleteLoop(w, undoInfo.sheetsToDelete, 1, <<>>))

----------------------------------------------------------------------------
(* executeStepPlan *)

\* A plan step as the caller sends it:
\*   form "nested"  {step: <step>, action: {action: <tag>, ...}}
\*   form "flat"    {action: <tag>, ..., step: <step>}   (an Action record)
\*   form "null"    null
\* step = 0 stands for a missing "step" field (0 is falsy as well).
NestedStep(label, a) == [form |-> "nested", step |-> label, act |-> a]
FlatStep(label, a) == [form |-> "flat", step |-> label, act |-> a]
NullStep == [form |-> "null", step |-> 0, act |-> NoAction]

\* step.action || step  (line 1182)
stepArgument(step) ==
    IF step.form = "nested" THEN ObjArg(step.act)
    ELSE IF step.act.action # "" THEN StrArg(step.act.action)
    ELSE ObjArg(step.act)

\* step.step || (i + 1)  (lines 1184 and 1190), k the 0-based loop index
stepLabel(step, k) == IF step.step # 0 THEN step.step ELSE k + 1

NoEntry == [step |-> 0, status |-> "", result |-> <<>>]

\* the iteration without the break of line 1195: the loop goes on after an error
planIteration_noBreak(w, step, k) ==
    LET Outcome(arg, out) ==
            [wb |-> out.wb,
             entry |-> [step |-> stepLabel(step, k),
                        status |-> IF out.threw THEN "error" ELSE "done",
                        result |-> IF out.threw THEN <<"Error: ">> \o out.ret
                                   ELSE out.ret],
             pushed |-> TRUE, halt |-> FALSE, flush |-> TRUE,
             dispatched |-> <<arg>>, raised |-> FALSE]
    IN  IF step.form = "null"
        THEN [wb |-> w, entry |-> NoEntry, pushed |-> FALSE, halt |-> TRUE,
              flush |-> FALSE, dispatched |-> <<>>, raised |-> TRUE]
        ELSE Outcome(stepArgument(step), executeSheetAction(w, stepArgument(step)))

\* the iteration with the flush of line 1198 moved into a finally block: it
\* flushes after a failing step as well
planIteration_flushAlways(w, step, k) ==
    LET Outcome(arg, out) ==
            [wb |-> out.wb,
             entry |-> [step |-> stepLabel(step, k),
                        status |-> IF out.threw THEN "error" ELSE "done",
                        result |-> IF out.threw THEN <<"Error: ">> \o out.ret
                                   ELSE out.ret],
             pushed |-> TRUE, halt |-> out.threw, flush |-> TRUE,
             dispatched |-> <<arg>>, raised |-> FALSE]
    IN  IF step.form = "null"
        THEN [wb |-> w, entry |-> NoEntry, pushed |-> FALSE, halt |-> TRUE,
              flush |-> FALSE, dispatched |-> <<>>, raised |-> TRUE]
        ELSE Outcome(stepArgument(step), executeSheetAction(w, stepArgument(step)))

\* One iteration of the for loop (lines 1180-1198) on step number k (0-based):
\* the workbook afterwards, the entry pushed, whether the loop breaks, whether
\* the iteration flushes, what executeSheetAction was called with, and whether
\* an exception left executeStepPlan (a null step: reading step.action throws
\* inside the try, reading step.step throws again inside the catch).
planIteration(w, step, k) ==
    IF step.form = "null"
    THEN [wb |-> w, entry |-> NoEntry, pushed |-> FALSE, halt |-> TRUE, flush |-> FALSE,
          dispatched |-> <<>>, raised |-> TRUE]
    ELSE
    LET Outcome(arg, out) ==
            IF out.threw
            THEN [wb |-> out.wb,
                  entry |-> [step |-> stepLabel(step, k), status |-> "error",
                             result |-> <<"Error: ">> \o out.ret],
                  pushed |-> TRUE, halt |-> TRUE, flush |-> FALSE,
                  dispatched |-> <<arg>>, raised |-> FALSE]
            ELSE [wb |-> out.wb,
                  entry |-> [step |-> stepLabel(step, k), status |-> "done",
                             result |-> out.ret],
                  pushed |-> TRUE, halt |-> FALSE, flush |-> TRUE,
                  dispatched |-> <<arg>>, raised |-> FALSE]
    IN  Outcome(stepArgument(step), executeSheetAction(w, stepArgument(step)))

----------------------------------------------------------------------------
(* The usage_records table, as far as one (user_id, period) goes *)

\* no row for the pair; lockedBy is the session holding the row lock (0: none),
\* committed is whether the row's insertion is visible to other sessions
NoRow == [exists |-> FALSE, committed |-> FALSE, chat_count |-> 0,
          formula_count |-> 0, query_count |-> 0, lockedBy |-> 0]

\* no session is connected
NoCallers == <<>>

----------------------------------------------------------------------------
(* The state machine *)

NoCall == [op |-> "none", act |-> NoAction, ledger |-> NoLedger, ret |-> <<>>,
           threw |-> FALSE, calls |-> <<>>, flushes |-> 0]

PlanIdle ==
    /\ steps' = <<>>
    /\ i' = 0
    /\ results' = <<>>
    /\ disp' = <<>>
    /\ flushed' = <<>>

\* a top-level call returns (or throws): its outcome is the new state
Finish(op, a, l, out) ==
    /\ wb' = out.wb
    /\ last' = [op |-> op, act |-> a, ledger |-> l, ret |-> out.ret,
                threw |-> out.threw, calls |-> out.calls, flushes |-> out.flushes]
    /\ wb0' = wb
    /\ donewb' = wb
    /\ pc' = "idle"
    /\ PlanIdle
    /\ UNCHANGED usageVars

\* a caller runs executeSheetAction(a) (google.script.run)
CallAction(a) ==
    /\ pc = "idle"
    /\ Finish("executeSheetAction", a, NoLedger, executeSheetAction(wb, ObjArg(a)))

\* a caller runs undoSheetActions(l)
CallUndo(l) ==
    /\ pc = "idle"
    /\ Finish("undoSheetActions", NoAction, l, undoSheetActions(wb, l))

\* a caller runs executeStepPlan(p): var results = []; i = 0
StartPlan(p) ==
    /\ pc = "idle"
    /\ steps' = p
    /\ i' = 0
    /\ results' = <<>>
    /\ disp' = <<>>
    /\ flushed' = <<>>
    /\ wb0' = wb
    /\ donewb' = wb
    /\ last' = [NoCall EXCEPT !.op = "executeStepPlan"]
    /\ pc' = IF Len(p) = 0 THEN "done" ELSE "running"
    /\ UNCHANGED <<wb, usage_records, callers>>

\* the loop with a rollback: a failing step restores the workbook the plan
\* started on
PlanStep_rollback ==
    /\ pc = "running"
    /\ i < Len(steps)
    /\ \E it \in {planIteration(wb, steps[i + 1], i)} :
           /\ wb' = IF it.halt THEN wb0 ELSE it.wb
           /\ disp' = disp \o it.dispatched
           /\ results' = IF it.pushed THEN Append(results, it.entry) ELSE results
           /\ flushed' = Append(flushed, it.flush)
           /\ donewb' = IF it.halt THEN donewb ELSE it.wb
           /\ i' = IF it.halt THEN i ELSE i + 1
           /\ pc' = IF it.raised THEN "raised"
                    ELSE IF it.halt THEN "halted"
                    ELSE IF i + 1 < Len(steps) THEN "running"
                    ELSE "done"
    /\ UNCHANGED <<steps, wb0, last, usage_records, callers>>

\* one iteration of the loop of executeStepPlan
PlanStep ==
    /\ pc = "running"
    /\ i < Len(steps)
    /\ \E it \in {planIteration(wb, steps[i + 1], i)} :
           /\ wb' = it.wb
           /\ disp' = disp \o it.dispatched
           /\ results' = IF it.pushed THEN Append(results, it.entry) ELSE results
           /\ flushed' = Append(flushed, it.flush)
           /\ donewb' = IF it.halt THEN donewb ELSE it.wb
           /\ i' = IF it.halt THEN i ELSE i + 1
           /\ pc' = IF it.raised THEN "raised"
                    ELSE IF it.halt THEN "halted"
                    ELSE IF i + 1 < Len(steps) THEN "running"
                    ELSE "done"
    /\ UNCHANGED <<steps, wb0, last, usage_records, callers>>

\* executeStepPlan returns results (or the exception reaches the caller); its
\* local variables are gone
PlanReturn ==
    /\ pc \in {"done", "halted", "raised"}
    /\ pc' = "idle"
    /\ last' = [last EXCEPT !.threw = (pc = "raised")]
    /\ donewb' = wb0
    /\ PlanIdle
    /\ UNCHANGED <<wb, wb0, usage_records, callers>>

----------------------------------------------------------------------------
(* Specification Spec: a workbook under any sequence of calls *)

Str1(a) == <<a>>
A1 == <<"A", "1">>

FirstWorkbook ==
    [sheets |-> <<[name |-> "S1", grid |-> BlankGrid(NewRows, NewCols),
                   filter |-> NoFilter]>>,
     active |-> "S1"]

ActCreateSheet(n) == [NoAction EXCEPT !.action = "createSheet", !.name = n]
ActDeleteSheet(n) == [NoAction EXCEPT !.action = "deleteSheet", !.name = n]
ActRenameSheet(o, n) ==
    [NoAction EXCEPT !.action = "renameSheet", !.oldName = o, !.newName = n]
ActSetValues(sh, rg, vals) ==
    [NoAction EXCEPT !.action = "setValues", !.sheet = sh, !.range = rg, !.values = vals]
ActSetFormula(sh, cl, fm, fd) ==
    [NoAction EXCEPT !.action = "setFormula", !.sheet = sh, !.cell = cl,
                     !.formula = fm, !.fillDown = fd]
ActClearRange(sh, rg) ==
    [NoAction EXCEPT !.action = "clearRange", !.sheet = sh, !.range = rg]
ActFormatRange(sh, rg) ==
    [NoAction EXCEPT !.action = "formatRange", !.sheet = sh, !.range = rg, !.bold = TRUE]
ActReadRange(sh, rg) ==
    [NoAction EXCEPT !.action = "readRange", !.sheet = sh, !.range = rg]
ActCopyRange(ssh, srg, dsh, dcl) ==
    [NoAction EXCEPT !.action = "copyRange", !.sourceSheet = ssh, !.sourceRange = srg,
                     !.destSheet = dsh, !.destCell = dcl]
ActDeleteRows(sh, rws) ==
    [NoAction EXCEPT !.action = "deleteRows", !.sheet = sh, !.rows = rws]
ActUnknown == [NoAction EXCEPT !.action = "frobnicate"]

OneValue == << << <<"v">> >> >>
FormulaA1 == <<"=", "A", "1">>

\* the actions a caller sends on their own
MainActions ==
    { ActCreateSheet("S2"), ActDeleteSheet("S1"), ActDeleteSheet("S2"),
      ActRenameSheet("S2", "S1"), ActSetValues("S1", A1, OneValue),
      ActSetFormula("Zz", A1, FormulaA1, FALSE), ActSetValues("Zz", A1, OneValue),
      ActFormatRange("Zz", A1), ActReadRange("Zz", A1),
      ActCopyRange("Zz", A1, "S1", A1), ActRenameSheet("Zz", "S2"),
      ActDeleteRows("Zz", <<1>>), ActClearRange("Zz", A1), ActUnknown }

\* the steps plans are made of
MainSteps ==
    { NestedStep(0, ActCreateSheet("S2")), NestedStep(0, ActDeleteSheet("S1")),
      NestedStep(0, ActClearRange("Zz", A1)),
      NestedStep(0, ActSetFormula("Zz", A1, FormulaA1, FALSE)),
      NestedStep(0, ActUnknown), FlatStep(0, ActCreateSheet("S2")),
      NestedStep(7, ActSetValues("S1", A1, OneValue)), NullStep }

\* the sequences over S of length at most n
SeqsUpTo(S, n) == UNION {[1..m -> S] : m \in 0..n}

MainPlans == SeqsUpTo(MainSteps, MaxPlan)

MainLedgers ==
    { NoLedger,
      [given |-> TRUE, sheetsToDelete |-> <<>>, cellsToClear |-> <<>>],
      [given |-> TRUE, sheetsToDelete |-> <<"S2">>, cellsToClear |-> <<>>],
      [given |-> TRUE, sheetsToDelete |-> <<"S1", "S2">>,
       cellsToClear |-> <<[sheet |-> "S1", range |-> A1]>>] }

Init ==
    /\ wb = FirstWorkbook
    /\ pc = "idle"
    /\ steps = <<>>
    /\ i = 0
    /\ results = <<>>
    /\ disp = <<>>
    /\ flushed = <<>>
    /\ wb0 = FirstWorkbook
    /\ donewb = FirstWorkbook
    /\ last = NoCall
    /\ usage_records = NoRow
    /\ callers = NoCallers

Next ==
    \/ \E a \in MainActions : CallAction(a)
    \/ \E l \in MainLedgers : CallUndo(l)
    \/ \E p \in MainPlans : StartPlan(p)
    \/ PlanStep
    \/ PlanReturn

Spec == Init /\ [][Next]_vars

----------------------------------------------------------------------------
(* Replaying a plan from the workbook it started on *)

\* the workbook after the first n steps of ss have been dispatched in order
RECURSIVE ApplySteps(_, _, _)
ApplySteps(w, ss, n) ==
    IF n = 0 THEN w
    ELSE executeSheetAction(ApplySteps(w, ss, n - 1), stepArgument(ss[n])).wb

\* the 1-based position of the first step of ss, from position k on, whose
\* handler throws; 0 when none does; -1 when a null step comes first
RECURSIVE FirstFailure(_, _, _)
FirstFailure(w, ss, k) ==
    LET After(out) == IF out.threw THEN k ELSE FirstFailure(out.wb, ss, k + 1)
    IN  IF k > Len(ss) THEN 0
        ELSE IF ss[k].form = "null" THEN -1
        ELSE After(executeSheetAction(w, stepArgument(ss[k])))

PlanFinished == pc \in {"done", "halted"}

----------------------------------------------------------------------------
(* Claims on executeStepPlan and the dispatcher (specification Spec) *)

\* C1: when executeStepPlan returns a report for a plan of N steps, the report
\* has N entries if no step's handler threw and otherwise as many entries as
\* the 1-based position f of the first step whose handler threw; entries
\* before f have status "done", entry f has status "error", and entry k
\* carries the label of plan step k (its "step" field, or k).
C1_ReportShape ==
    PlanFinished =>
        LET f == FirstFailure(wb0, steps, 1)
        IN  /\ f # -1
            /\ (pc = "halted") <=> (f # 0)
            /\ Len(results) = (IF f = 0 THEN Len(steps) ELSE f)
            /\ \A k \in 1..Len(results) :
                  /\ results[k].status = (IF k = f THEN "error" ELSE "done")
                  /\ results[k].step = stepLabel(steps[k], k - 1)

\* a 3-step plan whose second step failed: entry 1 done, entry 2 error, no entry 3
C1_Witness ==
    /\ pc = "halted"
    /\ Len(steps) = 3
    /\ Len(results) = 2
    /\ results[1].status = "done"
    /\ results[2].status = "error"

\* C2: once a step has failed, no later step is dispatched and nothing is
\* rolled back: executeSheetAction was called for the steps up to the failing
\* one only, and the workbook is the one the earlier steps produced (with
\* whatever the failing handler did before it threw).
C2_HaltNoRollback ==
    pc = "halted" =>
        /\ Len(disp) = i + 1
        /\ \A k \in 1..Len(disp) : disp[k] = stepArgument(steps[k])
        /\ donewb = ApplySteps(wb0, steps, i)
        /\ wb = executeSheetAction(donewb, stepArgument(steps[i + 1])).wb

\* a plan halted at its second step with a third one left, the first step's
\* effect on the workbook still there
C2_Witness ==
    /\ pc = "halted"
    /\ i = 1
    /\ Len(steps) = 3
    /\ wb # wb0
    /\ wb = donewb

\* a nested step whose action carries tag t
IsNestedWithTag(step, tags) == step.form = "nested" /\ step.act.action \in tags

\* C3 as stated: a step with an unrecognized tag is reported with status
\* "error" and is the last entry of the report.
C3_UnknownTagHalts ==
    \A k \in 1..Len(results) :
        (steps[k].form = "nested" /\ steps[k].act.action # ""
            /\ steps[k].act.action \notin RecognizedTags)
        => (results[k].status = "error" /\ Len(results) = k /\ pc # "running")

\* the sheet names action a refers to
NamedSheets(a) ==
    IF a.action \in {"setFormula", "setValues", "formatRange", "readRange",
                     "deleteRows", "clearRange"}
    THEN {a.sheet}
    ELSE IF a.action = "copyRange" THEN {a.sourceSheet, a.destSheet}
    ELSE IF a.action = "renameSheet" THEN {a.oldName}
    ELSE {}

\* C4 as stated: a step that names a sheet the workbook does not have, whatever
\* its kind, is reported with status "error" and is the last entry.
C4_MissingSheetHalts ==
    \A k \in 1..Len(results) :
        (steps[k].form = "nested"
            /\ \E n \in NamedSheets(steps[k].act) :
                  n # "" /\ n \notin SheetNames(ApplySteps(wb0, steps, k - 1)))
        => (results[k].status = "error" /\ Len(results) = k /\ pc # "running")

\* C5: the workbook always has at least one sheet.
C5_AtLeastOneSheet == Len(wb.sheets) >= 1

\* a call asked to delete the only sheet of the workbook, by deleteSheet ...
C5_Witness ==
    /\ last.op = "executeSheetAction"
    /\ last.act.action = "deleteSheet"
    /\ Len(wb0.sheets) = 1
    /\ last.act.name \in SheetNames(wb0)

\* C6 as stated: deleteSheet on the only sheet leaves the workbook unchanged
\* and, as a plan step, is reported with status "error" and halts the plan.
C6_LastSheetRejected ==
    \A k \in 1..Len(results) :
        (/\ steps[k].form = "nested"
         /\ steps[k].act.action = "deleteSheet"
         /\ SheetNames(ApplySteps(wb0, steps, k - 1)) = {steps[k].act.name})
        => /\ ApplySteps(wb0, steps, k) = ApplySteps(wb0, steps, k - 1)
           /\ results[k].status = "error"
           /\ Len(results) = k
           /\ pc # "running"

\* C7 as stated: a one-step plan holding a flat Action record has the effect
\* of executeSheetAction on that record, and reports its result.
C7_FlatStepEquivalent ==
    (PlanFinished /\ Len(steps) = 1 /\ steps[1].form = "flat") =>
        LET out == executeSheetAction(wb0, ObjArg(steps[1].act))
        IN  /\ disp = <<ObjArg(steps[1].act)>>
            /\ wb = out.wb
            /\ Len(results) = 1
            /\ results[1].result = (IF out.threw THEN <<"Error: ">> \o out.ret
                                    ELSE out.ret)

----------------------------------------------------------------------------
(* Specification SpecRows: one deleteRows call on a sheet whose rows can be *)
(* told apart                                                               *)

\* a one-column grid whose row r holds the text of r
IdGrid(n) == [r \in 1..n |-> <<[c |-> <<ToString(r)>>, f |-> FALSE]>>]

RowsWorkbook ==
    [sheets |-> <<[name |-> "S1", grid |-> IdGrid(RowsGridRows), filter |-> NoFilter]>>, active |-> "S1"]

RowLists == SeqsUpTo(1..RowsGridRows, MaxRowList)

SheetStart(w) ==
    /\ wb = w
    /\ pc = "idle"
    /\ steps = <<>>
    /\ i = 0
    /\ results = <<>>
    /\ disp = <<>>
    /\ flushed = <<>>
    /\ wb0 = w
    /\ donewb = w
    /\ last = NoCall

StartOn(w) ==
    /\ SheetStart(w)
    /\ usage_records = NoRow
    /\ callers = NoCallers

InitRows == StartOn(RowsWorkbook)

DeleteRowsCall == \E rows \in RowLists : CallAction(ActDeleteRows("S1", rows))

NextRows == last.op = "none" /\ DeleteRowsCall

SpecRows == InitRows /\ [][NextRows]_vars

LastIs(tag) == last.op = "executeSheetAction" /\ last.act.action = tag

TheGrid(w) == w.sheets[1].grid

SeqToSet(q) == {q[k] : k \in 1..Len(q)}

\* the maximal runs of consecutive numbers in a set: one per number whose
\* successor is not in the set
Runs(S) == {r \in S : r + 1 \notin S}

\* C8 as stated: for every list of rows of the sheet, the ranged deletes are
\* issued in strictly descending order of start row, one per maximal run of
\* consecutive row numbers, and the sheet ends with as many rows fewer as
\* were requested.
C8_DescendingBatches ==
    (LastIs("deleteRows") /\ last.act.rows # <<>>) =>
        /\ ~last.threw
        /\ \A k \in 1..(Len(last.calls) - 1) :
              last.calls[k].start > last.calls[k + 1].start
        /\ Len(last.calls) = Cardinality(Runs(SeqToSet(last.act.rows)))
        /\ NumRows(TheGrid(wb)) = NumRows(TheGrid(wb0)) - Len(last.act.rows)

\* the same for row lists that name no row twice
C8_WithoutRepeats ==
    Cardinality(SeqToSet(last.act.rows)) = Len(last.act.rows) => C8_DescendingBatches

\* rows {2,3,4,6}, in some order: two calls, [6] then [2-4]
C8_Example ==
    (LastIs("deleteRows") /\ SeqToSet(last.act.rows) = {2, 3, 4, 6}
        /\ Len(last.act.rows) = 4)
    => /\ last.calls = <<[op |-> "deleteRows", start |-> 6, count |-> 1],
                         [op |-> "deleteRows", start |-> 2, count |-> 3]>>
       /\ NumRows(TheGrid(wb)) = RowsGridRows - 4

----------------------------------------------------------------------------
(* Specification SpecFormula: one setFormula call on a sheet whose columns  *)
(* hold data down to different rows                                         *)

DataCell == [c |-> <<"v">>, f |-> FALSE]

\* column k holds data in rows 1..h[k]
HeightGrid(h) ==
    [r \in 1..FormulaRows |->
        [k \in 1..FormulaCols |-> IF r <= h[k] THEN DataCell ELSE EmptyCell]]

FormulaWorkbooks ==
    { [sheets |-> <<[name |-> "S1", grid |-> HeightGrid(h), filter |-> NoFilter]>>, active |-> "S1"] :
        h \in [1..FormulaCols -> 0..FormulaRows] }

\* =UNIQUE(A2:A9)
F_Unique == <<"=","U","N","I","Q","U","E","(","A","2",":","A","9",")">>
\* =sort(A2:A9)
F_SortLower == <<"=","s","o","r","t","(","A","2",":","A","9",")">>
\* = SORTN (A2:A9)
F_SortNSpaced == <<"="," ","S","O","R","T","N"," ","(","A","2",":","A","9",")">>
\* =SUMIF(A:A,A2,B:B)
F_SumIf == <<"=","S","U","M","I","F","(","A",":","A",",","A","2",",","B",":","B",")">>
\* =IFERROR(UNIQUE(A2:A9))
F_IfErrorUnique == <<"=","I","F","E","R","R","O","R","(","U","N","I","Q","U","E","(",
                     "A","2",":","A","9",")",")">>

\* the formulas whose leading function is one of UNIQUE, FILTER, SORT, SORTN,
\* SEQUENCE, ARRAYFORMULA, SPLIT, TRANSPOSE, FLATTEN
SpillFormulas == {F_Unique, F_SortLower, F_SortNSpaced}
Formulas == SpillFormulas \cup {F_SumIf, F_IfErrorUnique}

FormulaCells == { <<"A","2">>, <<"B","2">>, <<"B","1">>, <<"C","3">>, <<"b","2">> }

InitFormula == \E w \in FormulaWorkbooks : StartOn(w)

SetFormulaCall ==
    \E cell \in FormulaCells, fm \in Formulas, fd \in BOOLEAN :
        CallAction(ActSetFormula("S1", cell, fm, fd))

NextFormula == last.op = "none" /\ SetFormulaCall

SpecFormula == InitFormula /\ [][NextFormula]_vars

\* C9: setFormula with fillDown on a formula whose leading function is in the
\* auto-spill set writes the formula into the target cell, copies to no other
\* cell (every other cell is as before, and no copyTo is issued), and returns
\* the message that says the fill-down was skipped because of auto-spill.
C9_AutoSpillNotFilled ==
    (LastIs("setFormula") /\ last.act.fillDown /\ last.act.formula \in SpillFormulas) =>
        LET target == ParseA1(last.act.cell)
        IN  /\ ~last.threw
            /\ TheGrid(wb)[target.r1][target.c1].c = last.act.formula
            /\ \A r \in 1..FormulaRows, k \in 1..FormulaCols :
                  (r # target.r1 \/ k # target.c1)
                  => TheGrid(wb)[r][k] = TheGrid(wb0)[r][k]
            /\ \A k \in 1..Len(last.calls) : last.calls[k].op # "copyTo"
            /\ last.ret[Len(last.ret)] = " (auto-spill, fillDown skipped)"

\* =sort(...) with fillDown in B2 of a sheet with data below row 2
C9_Witness ==
    /\ LastIs("setFormula")
    /\ last.act.fillDown
    /\ last.act.formula = F_SortLower
    /\ last.act.cell = <<"B","2">>
    /\ getLastRow(TheGrid(wb0)) > 2

\* C10 as stated: setFormula with fillDown on a formula that does not
\* auto-spill, at cell (col, r), flushes and copies the formula to rows r..L
\* of column col, L the last populated row of the adjacent column (col - 1,
\* or col + 1 when col = 1); the rows of the column beyond L are as before.
C10_FillToAdjacentColumn ==
    (LastIs("setFormula") /\ last.act.fillDown /\ last.act.formula \notin SpillFormulas
        /\ cellMatch(last.act.cell)) =>
        LET target == ParseA1(last.act.cell)
            col == target.c1
            row == target.r1
            adjacent == IF col > 1 THEN col - 1 ELSE col + 1
            L == LastRowOfColumn(TheGrid(wb0), adjacent)
        IN  /\ last.flushes >= 1
            /\ \A q \in 1..FormulaRows :
                  IF q = row \/ (row <= q /\ q <= L)
                  THEN TheGrid(wb)[q][col].c = last.act.formula
                  ELSE TheGrid(wb)[q][col] = TheGrid(wb0)[q][col]

----------------------------------------------------------------------------
(* Specification SpecSheets: sheets created, written to and deleted by name *)

SheetNamePool == {"S1", "S2", "S3"}

CreateSheetCall == \E n \in SheetNamePool : CallAction(ActCreateSheet(n))

WriteA1Call == \E n \in SheetNamePool : CallAction(ActSetValues(n, A1, OneValue))

DeleteSheetCall == \E n \in SheetNamePool : CallAction(ActDeleteSheet(n))

InitSheets == StartOn(FirstWorkbook)

NextSheets ==
    \/ CreateSheetCall
    \/ WriteA1Call
    \/ DeleteSheetCall

SpecSheets == InitSheets /\ [][NextSheets]_vars

DistinctNames(w) ==
    \A a, b \in 1..Len(w.sheets) : a # b => w.sheets[a].name # w.sheets[b].name

IsBlank(g) == \A r \in 1..Len(g) : \A k \in 1..Len(g[r]) : g[r][k] = EmptyCell

\* C11: createSheet(name) adds one empty sheet when no sheet has the name,
\* and otherwise clears the existing sheet and adds none; the other sheets
\* are as before; no two sheets ever share a name; and a second
\* createSheet(name) leaves the workbook the first one left.
C11_CreateSheetIdempotent ==
    /\ DistinctNames(wb)
    /\ LastIs("createSheet") =>
         LET Holds(name, before, after) ==
               /\ IF getSheetByName(before, name) = 0
                  THEN /\ Len(after.sheets) = Len(before.sheets) + 1
                       /\ \A k \in 1..Len(before.sheets) :
                             after.sheets[k] = before.sheets[k]
                       /\ after.sheets[Len(after.sheets)].name = name
                       /\ IsBlank(after.sheets[Len(after.sheets)].grid)
                  ELSE /\ Len(after.sheets) = Len(before.sheets)
                       /\ \A k \in 1..Len(before.sheets) :
                             IF before.sheets[k].name = name
                             THEN /\ after.sheets[k].name = name
                                  /\ IsBlank(after.sheets[k].grid)
                             ELSE after.sheets[k] = before.sheets[k]
               /\ createSheet(after, name).wb = after
         IN  Holds(last.act.name, wb0, wb)

\* createSheet on the name of a sheet that holds a value
C11_Witness ==
    /\ LastIs("createSheet")
    /\ getSheetByName(wb0, last.act.name) # 0
    /\ ~IsBlank(wb0.sheets[getSheetByName(wb0, last.act.name)].grid)
    /\ Len(wb0.sheets) >= 2

----------------------------------------------------------------------------
(* Specification SpecUndo: one undoSheetActions call on a workbook of one   *)
(* to three sheets, some of them holding a value in A1                      *)

\* longest sheetsToDelete and cellsToClear lists
MaxUndoSheets == 2
MaxUndoCells == 2

NameSeqs ==
    { ns \in SeqsUpTo(SheetNamePool, 3) :
        /\ Len(ns) >= 1
        /\ \A a, b \in 1..Len(ns) : a # b => ns[a] # ns[b] }

\* a sheet with a formatted value in A1 and in its last cell
FormattedCell == [c |-> <<"v">>, f |-> TRUE]

DirtyGrid ==
    [BlankGrid(NewRows, NewCols) EXCEPT ![1][1] = FormattedCell,
                                        ![NewRows][NewCols] = FormattedCell]

UndoWorkbooks ==
    { [sheets |-> [k \in 1..Len(ns) |->
                     [name |-> ns[k],
                      grid |-> IF ns[k] \in D THEN DirtyGrid
                               ELSE BlankGrid(NewRows, NewCols),
                      filter |-> NoFilter]],
       active |-> ns[1]] : ns \in NameSeqs, D \in SUBSET SheetNamePool }

A1B1 == <<"A", "1", ":", "B", "1">>

CellEntries == { [sheet |-> "S1", range |-> A1], [sheet |-> "S2", range |-> A1B1] }

UndoLedgers ==
    { NoLedger } \cup
    { [given |-> TRUE, sheetsToDelete |-> sd, cellsToClear |-> cc] :
        sd \in SeqsUpTo(SheetNamePool, MaxUndoSheets),
        cc \in SeqsUpTo(CellEntries, MaxUndoCells) }

InitUndo == \E w \in UndoWorkbooks : StartOn(w)

UndoCall == \E l \in UndoLedgers : CallUndo(l)

NextUndo == last.op = "none" /\ UndoCall

SpecUndo == InitUndo /\ [][NextUndo]_vars

LastUndo == last.op = "undoSheetActions"

\* the parts of msg hold the three parts of report, consecutively
Reports(msg, report) ==
    \E k \in 1..(Len(msg) - 2) :
        /\ msg[k] = report[1]
        /\ msg[k + 1] = report[2]
        /\ msg[k + 2] = report[3]

\* C12: in an undoSheetActions call, a listed sheet is kept only as the
\* workbook's last remaining sheet, and that skip is reported in the result
\* string; every other listed sheet is gone afterwards, and every
\* cellsToClear entry whose sheet is still there has its range cleared.
C12_UndoSkipsLastSheetOnly ==
    (LastUndo /\ last.ledger.given) =>
        LET Holds(sd, cc, before, after, msg) ==
              /\ ~last.threw
              /\ \A k \in 1..Len(sd) :
                    (sd[k] \in SheetNames(before) /\ sd[k] \in SheetNames(after))
                    => /\ Len(after.sheets) = 1
                       /\ Reports(msg, <<"Cannot delete '", sd[k], "' (last sheet)">>)
              /\ \A k \in 1..Len(cc) :
                    getSheetByName(after, cc[k].sheet) # 0
                    => after.sheets[getSheetByName(after, cc[k].sheet)].grid[1][1]
                         = EmptyCell
              /\ \A s \in 1..Len(before.sheets) :
                    (\A k \in 1..Len(sd) : sd[k] # before.sheets[s].name)
                    => getSheetByName(after, before.sheets[s].name) # 0
        IN  Holds(last.ledger.sheetsToDelete, last.ledger.cellsToClear, wb0, wb,
                  last.ret)

\* S2 is deleted, S1 is then the last sheet and is kept, and S1!A1, which
\* held a value, is cleared in the same call
C12_Witness ==
    /\ LastUndo
    /\ last.ledger.sheetsToDelete = <<"S2", "S1">>
    /\ last.ledger.cellsToClear = <<[sheet |-> "S1", range |-> A1]>>
    /\ SheetNames(wb0) = {"S1", "S2"}
    /\ wb0.sheets[1].name = "S1"
    /\ wb0.sheets[1].grid[1][1] # EmptyCell
    /\ SheetNames(wb) = {"S1"}
    /\ wb.sheets[1].grid[1][1] = EmptyCell
    /\ Reports(last.ret, <<"Cannot delete '", "S1", "' (last sheet)">>)

\* C13: undoSheetActions with no ledger, or with a ledger whose
\* sheetsToDelete and cellsToClear are both empty, returns the nothing-to-undo
\* message and leaves the workbook as it was.
C13_EmptyLedgerNoEffect ==
    (LastUndo /\ last.ledger.sheetsToDelete = <<>> /\ last.ledger.cellsToClear = <<>>)
    => /\ ~last.threw
       /\ last.ret = <<"Nothing to undo">>
       /\ wb = wb0

\* a given ledger with two empty lists, on a workbook that holds a value
C13_Witness ==
    /\ LastUndo
    /\ last.ledger.given
    /\ last.ledger.sheetsToDelete = <<>>
    /\ last.ledger.cellsToClear = <<>>
    /\ \E s \in 1..Len(wb0.sheets) : ~IsBlank(wb0.sheets[s].grid)

----------------------------------------------------------------------------
(* Column letters and the sheet reader (getSheetData)                       *)

MAX_ROWS == 2000
MAX_CELLS == 50000

\* String.fromCharCode for the codes of A-Z
fromCharCode(n) == UpperLetters[n - 64]

\* the while loop of _colLetter
RECURSIVE colLetterLoop(_, _)
colLetterLoop(c, letter) ==
    IF c > 0
    THEN colLetterLoop((c - 1) \div 26, <<fromCharCode(65 + ((c - 1) % 26))>> \o letter)
    ELSE letter

\* plain base 26, where a digit can be zero: no "- 1" on lines 28 and 30
RECURSIVE colLetterLoop_zeroDigit(_, _)
colLetterLoop_zeroDigit(c, letter) ==
    IF c > 0
    THEN colLetterLoop_zeroDigit(c \div 26, <<fromCharCode(65 + (c % 26))>> \o letter)
    ELSE letter

_colLetter_zeroDigit(col) == colLetterLoop_zeroDigit(col, <<>>)

_colLetter(col) == colLetterLoop(col, <<>>)

\* the test of line 136 with the limit at zero
exceedsMaxCells_zero(cellCount) == cellCount > 0

\* cellCount > MAX_CELLS
exceedsMaxCells(cellCount) == cellCount > MAX_CELLS

\* the flag of the regular payload copied from the over-limit payload
isTruncated_always(numRows) == TRUE

\* truncated: numRows > MAX_ROWS (line 157)
isTruncated(numRows) == numRows > MAX_ROWS

\* Internal function to read data from a sheet.  cells is the set of
\* key/value entries of the object, a key being the column letters and the
\* row number; the selection is not part of the model.
_readSheetData(g) ==
    LET Payload(dataRange, cells, cellCount) ==
            IF exceedsMaxCells(cellCount)
            THEN [cells |-> {}, totalRows |-> dataRange.numRows,
                  totalColumns |-> dataRange.numCols, truncated |-> TRUE,
                  truncatedReason |-> <<"Sheet has ", ToString(cellCount),
                                        " cells (max ", ToString(MAX_CELLS),
                                        "). Please select a smaller range.">>,
                  cellCount |-> cellCount]
            ELSE [cells |-> cells, totalRows |-> dataRange.numRows,
                  totalColumns |-> dataRange.numCols,
                  truncated |-> isTruncated(dataRange.numRows)]
        Count(dataRange, cells) ==
            Payload(dataRange, cells, Cardinality({e.key : e \in cells}))
        Read(dataRange, rowsToRead, colLetters) ==
            Count(dataRange,
                  { [key |-> <<colLetters[p[2]], p[1]>>, val |-> g[p[1]][p[2]].c] :
                      p \in { q \in (1..rowsToRead) \X (1..dataRange.numCols) :
                                g[q[1]][q[2]].c # <<>> } })
        Ranged(dataRange) ==
            Read(dataRange, Min(dataRange.numRows, MAX_ROWS),
                 [c \in 1..dataRange.numCols |-> _colLetter(c)])
    IN  Ranged(getDataRange(g))

\* Reads data from the active sheet and returns it to the sidebar.
getSheetData(w) ==
    [wb |-> w, ret |-> _readSheetData(w.sheets[getActiveSheet(w)].grid),
     threw |-> FALSE, calls |-> <<>>, flushes |-> 0]

\* the sidebar runs getSheetData()
CallGetSheetData ==
    /\ pc = "idle"
    /\ Finish("getSheetData", NoAction, NoLedger, getSheetData(wb))

----------------------------------------------------------------------------
(* Specification SpecRead: one getSheetData call on small sheets of every   *)
(* content, and on sheets around the MAX_ROWS and MAX_CELLS limits          *)

GuardRows == 3
GuardCols == 2

SmallGrids == [1..GuardRows -> [1..GuardCols -> {EmptyCell, DataCell}]]

\* a full sheet but for the first blanks cells of column 2
LargeGrid(rows, cols, blanks) ==
    [r \in 1..rows |->
        [k \in 1..cols |-> IF k = 2 /\ r <= blanks THEN EmptyCell ELSE DataCell]]

LargeGrids ==
    { LargeGrid(rows, cols, blanks) :
        rows \in {MAX_ROWS, MAX_ROWS + 1},
        cols \in {MAX_CELLS \div MAX_ROWS, (MAX_CELLS \div MAX_ROWS) + 1},
        blanks \in {0, MAX_ROWS - 1} }
    \cup { LargeGrid(rows, 1, 0) : rows \in {MAX_ROWS, MAX_ROWS + 1} }

ReadWorkbooks ==
    { [sheets |-> <<[name |-> "S1", grid |-> g, filter |-> NoFilter]>>, active |-> "S1"] :
        g \in SmallGrids \cup LargeGrids }

InitRead == \E w \in ReadWorkbooks : StartOn(w)

NextRead == last.op = "none" /\ CallGetSheetData

SpecRead == InitRead /\ [][NextRead]_vars

\* the positions of the non-empty cells among the first MAX_ROWS rows
NonEmptyRead(g) ==
    { q \in (1..Min(Len(g), MAX_ROWS)) \X (1..NumCols(g)) : g[q[1]][q[2]].c # <<>> }

\* C14: when more than MAX_CELLS non-empty cells are read, getSheetData
\* returns truncated = true with a reason, the cell count, and an empty cells
\* map; otherwise the cells map holds exactly the non-empty cells read, each
\* under the A1 key of its position; a cells map never has more than
\* MAX_CELLS entries.
C14_PayloadGuard ==
    last.op = "getSheetData" =>
        LET Holds(g, n, out) ==
              /\ Cardinality(out.cells) <= MAX_CELLS
              /\ IF n > MAX_CELLS
                 THEN /\ out.truncated
                      /\ out.cells = {}
                      /\ out.cellCount = n
                      /\ Len(out.truncatedReason) > 0
                 ELSE /\ Cardinality(out.cells) = n
                      /\ \A e \in out.cells :
                            /\ <<e.key[2], _letterToColumn(e.key[1])>> \in NonEmptyRead(g)
                            /\ e.val = g[e.key[2]][_letterToColumn(e.key[1])].c
        IN  Holds(TheGrid(wb0), Cardinality(NonEmptyRead(TheGrid(wb0))), last.ret)

\* a sheet with MAX_CELLS + 1 non-empty cells has been read
C14_Witness ==
    /\ last.op = "getSheetData"
    /\ last.ret.truncated
    /\ last.ret.cells = {}
    /\ last.ret.cellCount = MAX_CELLS + 1

\* a sheet with exactly MAX_CELLS non-empty cells has been read in full
C14_WitnessAtLimit ==
    /\ last.op = "getSheetData"
    /\ Cardinality(last.ret.cells) = MAX_CELLS

----------------------------------------------------------------------------
(* Specification SpecCodec: a column number encoded and decoded again, and  *)
(* a column string decoded and encoded again                                *)

\* longest column string tried
MaxLetters == 3

\* the number of column strings of one to three letters
ColumnCount == 26 + 26 * 26 + 26 * 26 * 26

UpperSet == {UpperLetters[k] : k \in 1..26}

LetterStrings == UNION {[1..m -> UpperSet] : m \in 1..MaxLetters}

\* strings that are empty or hold a character that is no letter
BadLetterStrings ==
    { <<>>, <<"1">>, <<"A", "1">>, <<"1", "A">>, <<" ">>, <<"A", " ">>, <<"!">> }

\* a codec call: its outcome, and the calls so far with argument and result
CodecCall(op, arg, ret) ==
    /\ pc = "idle"
    /\ Finish(op, NoAction, NoLedger,
              [wb |-> wb, ret |-> ret, threw |-> FALSE,
               calls |-> Append(last.calls, [op |-> op, arg |-> arg, ret |-> ret]),
               flushes |-> 0])

\* _colLetter on a column number, or on the number the previous call returned
ColLetterCall ==
    \/ /\ last.op = "none"
       /\ \E n \in 1..ColumnCount : CodecCall("_colLetter", n, _colLetter(n))
    \/ /\ last.op = "_letterToColumn"
       /\ Len(last.calls) = 1
       /\ CodecCall("_colLetter", last.ret, _colLetter(last.ret))

\* _letterToColumn on a string, or on the string the previous call returned
LetterToColumnCall ==
    \/ /\ last.op = "none"
       /\ \E s \in LetterStrings \cup BadLetterStrings :
             CodecCall("_letterToColumn", s, _letterToColumn(s))
    \/ /\ last.op = "_colLetter"
       /\ Len(last.calls) = 1
       /\ CodecCall("_letterToColumn", last.ret, _letterToColumn(last.ret))

InitCodec == StartOn(FirstWorkbook)

NextCodec ==
    \/ ColLetterCall
    \/ LetterToColumnCall

SpecCodec == InitCodec /\ [][NextCodec]_vars

\* C15: _letterToColumn(_colLetter(n)) = n for every n in 1..18278, and
\* _colLetter(_letterToColumn(s)) = s for every string s of one to three
\* letters A-Z.
C15_CodecRoundTrip ==
    (Len(last.calls) = 2
        /\ \/ last.calls[1].op = "_colLetter" /\ last.calls[1].arg \in 1..18278
           \/ /\ last.calls[1].op = "_letterToColumn"
              /\ last.calls[1].arg \in LetterStrings
              /\ Len(last.calls[1].arg) <= 3)
    => /\ last.calls[2].op # last.calls[1].op
       /\ last.calls[2].ret = last.calls[1].arg

\* column 18278 has been encoded as ZZZ and decoded again
C15_Witness ==
    /\ Len(last.calls) = 2
    /\ last.calls[1].op = "_colLetter"
    /\ last.calls[1].arg = 18278
    /\ last.calls[1].ret = <<"Z", "Z", "Z">>
    /\ last.calls[2].op = "_letterToColumn"

\* AA has been decoded as 27 and encoded again
C15_WitnessLetters ==
    /\ Len(last.calls) = 2
    /\ last.calls[1].op = "_letterToColumn"
    /\ last.calls[1].arg = <<"A", "A">>
    /\ last.calls[1].ret = 27
    /\ last.calls[2].op = "_colLetter"

\* C16 as stated: _letterToColumn on a string that is empty or holds a
\* character that is no letter fails; it returns no number.
C16_BadLettersRejected ==
    (last.op = "_letterToColumn" /\ Len(last.calls) = 1
        /\ last.calls[1].arg \in BadLetterStrings)
    => last.threw

----------------------------------------------------------------------------
(* executeStepPlan and malformed steps (specification Spec) *)

\* C17 as stated: executeStepPlan never raises to its caller; a plan that
\* stops early stops on a report entry with status 'error', and a report is
\* returned.
C17_PlanNeverRaises ==
    /\ pc # "raised"
    /\ (last.op = "executeStepPlan" /\ pc = "idle") => ~last.threw

----------------------------------------------------------------------------
(* check_and_increment_usage: concurrent sessions on one (user_id, period), *)
(* each call its own transaction at READ COMMITTED                          *)

\* number of concurrent sessions, and p_limit
NumCallers == 3
UsageLimit == 2

ValidColumns == {"chat_count", "formula_count", "query_count"}

ColumnArgs == ValidColumns \cup {"bogus"}

IdleCaller == [pc |-> "idle", column |-> "", found |-> FALSE,
               v_current_total |-> 0, result |-> "none"]

\* COALESCE(query_count, 0) + COALESCE(formula_count, 0) + COALESCE(chat_count, 0)
TotalOf(row) == row.query_count + row.formula_count + row.chat_count

\* the rows the pair can have before the calls: none, or a committed one
StartRows ==
    { NoRow } \cup
    { [NoRow EXCEPT !.exists = TRUE, !.committed = TRUE, !.chat_count = t] :
        t \in 0..UsageLimit }

\* a session calls the function: lines 25-27
UsageCall(c) ==
    /\ callers[c].pc = "idle"
    /\ \E col \in ColumnArgs :
          callers' = [callers EXCEPT
                        ![c].column = col,
                        ![c].pc = IF col \in ValidColumns THEN "select" ELSE "done",
                        ![c].result = IF col \in ValidColumns THEN "none"
                                      ELSE "exception"]
    /\ UNCHANGED usage_records

\* SELECT ... FOR UPDATE (lines 30-35).  A row that does not exist, or whose
\* insertion is not committed yet, is not seen and nothing is locked; a row
\* locked by another session makes the statement wait, and it then reads the
\* committed row.
SelectForUpdate(c) ==
    /\ callers[c].pc = "select"
    /\ IF usage_records.exists /\ usage_records.committed
       THEN /\ usage_records.lockedBy = 0
            /\ usage_records' = [usage_records EXCEPT !.lockedBy = c]
            /\ callers' = [callers EXCEPT
                             ![c].found = TRUE,
                             ![c].v_current_total = TotalOf(usage_records),
                             ![c].pc = "check"]
       ELSE /\ callers' = [callers EXCEPT ![c].found = FALSE, ![c].pc = "insert"]
            /\ UNCHANGED usage_records

\* v_record_id IS NULL: INSERT ... ON CONFLICT DO UPDATE, RETURN TRUE (lines
\* 37-59).  A conflicting row held by another transaction makes the statement
\* wait for that transaction to end.
InsertOnConflict(c) ==
    /\ callers[c].pc = "insert"
    /\ IF ~usage_records.exists
       THEN usage_records' = [NoRow EXCEPT !.exists = TRUE, !.lockedBy = c,
                                           ![callers[c].column] = 1]
       ELSE /\ usage_records.lockedBy = 0
            /\ usage_records' = [usage_records EXCEPT !.lockedBy = c,
                                                      ![callers[c].column] = @ + 1]
    /\ callers' = [callers EXCEPT ![c].result = "TRUE", ![c].pc = "commit"]

\* IF v_current_total >= p_limit THEN RETURN FALSE (lines 62-64)
CheckLimit(c) ==
    /\ callers[c].pc = "check"
    /\ callers' = [callers EXCEPT
                     ![c].pc = IF callers[c].v_current_total >= UsageLimit
                               THEN "commit" ELSE "update",
                     ![c].result = IF callers[c].v_current_total >= UsageLimit
                                   THEN "FALSE" ELSE "none"]
    /\ UNCHANGED usage_records

\* UPDATE usage_records SET col = col + 1 WHERE id = v_record_id, RETURN TRUE
\* (lines 67-72)
IncrementColumn(c) ==
    /\ callers[c].pc = "update"
    /\ usage_records' = [usage_records EXCEPT ![callers[c].column] = @ + 1]
    /\ callers' = [callers EXCEPT ![c].result = "TRUE", ![c].pc = "commit"]

\* the transaction of the call commits: its row lock is released and a row it
\* inserted becomes visible
CommitCall(c) ==
    /\ callers[c].pc = "commit"
    /\ usage_records' =
          IF usage_records.lockedBy = c
          THEN [usage_records EXCEPT !.lockedBy = 0, !.committed = TRUE]
          ELSE usage_records
    /\ callers' = [callers EXCEPT ![c].pc = "done"]

InitUsage ==
    /\ SheetStart(FirstWorkbook)
    /\ usage_records \in StartRows
    /\ callers = [c \in 1..NumCallers |-> IdleCaller]

NextUsage ==
    \/ \E c \in 1..NumCallers : UsageCall(c) /\ UNCHANGED sheetVars
    \/ \E c \in 1..NumCallers : SelectForUpdate(c) /\ UNCHANGED sheetVars
    \/ \E c \in 1..NumCallers : InsertOnConflict(c) /\ UNCHANGED sheetVars
    \/ \E c \in 1..NumCallers : CheckLimit(c) /\ UNCHANGED sheetVars
    \/ \E c \in 1..NumCallers : IncrementColumn(c) /\ UNCHANGED sheetVars
    \/ \E c \in 1..NumCallers : CommitCall(c) /\ UNCHANGED sheetVars

SpecUsage == InitUsage /\ [][NextUsage]_vars

\* C18 as stated: whatever the interleaving, and also when no row exists yet,
\* at most UsageLimit calls return TRUE and the stored total never exceeds
\* UsageLimit.
C18_LimitNeverExceeded ==
    /\ TotalOf(usage_records) <= UsageLimit
    /\ Cardinality({c \in 1..NumCallers : callers[c].result = "TRUE"}) <= UsageLimit

\* the same once the row is there: while no session has taken the insert
\* path, the total stays within the limit
C18_WithExistingRow ==
    (\A c \in 1..NumCallers : callers[c].pc = "idle" \/ callers[c].found
        \/ callers[c].result = "exception" \/ callers[c].pc = "select")
    => TotalOf(usage_records) <= UsageLimit

----------------------------------------------------------------------------
(* deleteRows and the rows it removes (specification SpecRows) *)

\* the texts held by the rows of a one-column grid
RowTexts(g) == {g[r][1].c : r \in 1..Len(g)}

\* C19 as stated: for every list of row numbers, in any order and with
\* repeats, the rows removed are exactly the rows that carried the requested
\* numbers before the call; no other row is removed.
C19_ExactRowsRemoved ==
    (LastIs("deleteRows") /\ last.act.rows # <<>>) =>
        /\ ~last.threw
        /\ RowTexts(TheGrid(wb)) =
              {<<ToString(r)>> : r \in (1..RowsGridRows) \ SeqToSet(last.act.rows)}
        /\ Len(TheGrid(wb)) = RowsGridRows - Cardinality(SeqToSet(last.act.rows))

\* the same for row lists that name no row twice
C19_WithoutRepeats ==
    Cardinality(SeqToSet(last.act.rows)) = Len(last.act.rows) => C19_ExactRowsRemoved

----------------------------------------------------------------------------
(* Specification SpecCols: one deleteColumns call on a sheet whose columns  *)
(* can be told apart                                                        *)

ColsGridCols == 5
MaxColList == 3

\* a one-row grid whose column k holds the text of k
IdColumns(n) == << [k \in 1..n |-> [c |-> <<ToString(k)>>, f |-> FALSE]] >>

ColsWorkbook ==
    [sheets |-> <<[name |-> "S1", grid |-> IdColumns(ColsGridCols), filter |-> NoFilter]>>, active |-> "S1"]

\* the letter strings of the sheet's columns, and one in lower case
ColumnLetters == {<<UpperLetters[k]>> : k \in 1..ColsGridCols} \cup {<<"b">>}

ColumnLists == SeqsUpTo(ColumnLetters, MaxColList)

ActDeleteColumns(sh, cols) ==
    [NoAction EXCEPT !.action = "deleteColumns", !.sheet = sh, !.columns = cols]

InitCols == StartOn(ColsWorkbook)

DeleteColumnsCall == \E cols \in ColumnLists : CallAction(ActDeleteColumns("S1", cols))

NextCols == last.op = "none" /\ DeleteColumnsCall

SpecCols == InitCols /\ [][NextCols]_vars

\* the position in the alphabet of a one-letter column string, either case
LetterPosition(s) ==
    IF IsUpper(s[1]) THEN IndexIn(s[1], UpperLetters) ELSE IndexIn(s[1], LowerLetters)

RequestedColumns(cols) == {LetterPosition(cols[k]) : k \in 1..Len(cols)}

ColumnTexts(g) == {g[1][k].c : k \in 1..Len(g[1])}

\* C20 as stated: deleteColumns issues one single-column delete per element
\* of the list, on the indices of the letters in descending order, and each
\* delete removes the column that carried that letter before the call: the
\* columns left are the original ones but for the requested letters.
C20_ColumnsDeletedDescending ==
    (LastIs("deleteColumns") /\ last.act.columns # <<>>) =>
        /\ ~last.threw
        /\ Len(last.calls) = Len(last.act.columns)
        /\ \A k \in 1..(Len(last.calls) - 1) :
              last.calls[k].index >= last.calls[k + 1].index
        /\ {last.calls[k].index : k \in 1..Len(last.calls)}
              = RequestedColumns(last.act.columns)
        /\ ColumnTexts(TheGrid(wb)) =
              {<<ToString(k)>> :
                  k \in (1..ColsGridCols) \ RequestedColumns(last.act.columns)}

\* the same for lists that name no column twice
C20_WithoutRepeats ==
    Cardinality(RequestedColumns(last.act.columns)) = Len(last.act.columns)
    => C20_ColumnsDeletedDescending

----------------------------------------------------------------------------
(* executeStepPlan and SpreadsheetApp.flush() (specification Spec) *)

----------------------------------------------------------------------------
(* Specification SpecFilter: one filter or sort action on a sheet with a    *)
(* header row and a few data rows, with or without a filter already set     *)

\* rows of the sheet, the header included
FilterRows == 4

\* what column A of a data row may hold: numbers, words in both cases, nothing
FilterValuePool == { <<"5">>, <<"1", "0">>, <<"b">>, <<"B">>, <<>> }

RowIds == <<"1", "2", "3", "4", "5", "6", "7", "8", "9">>

\* column A: "h" over the given values; column B: "k" over the row numbers
FilterGrid(vals) ==
    [r \in 1..(Len(vals) + 1) |->
        IF r = 1 THEN << [c |-> <<"h">>, f |-> FALSE], [c |-> <<"k">>, f |-> FALSE] >>
        ELSE << [c |-> vals[r - 1], f |-> FALSE], [c |-> <<"r", RowIds[r]>>, f |-> FALSE] >>]

FilterSheet(g) ==
    [sheets |-> <<[name |-> "S1", grid |-> g, filter |-> NoFilter]>>, active |-> "S1"]

Letter_A == Defined(<<"A">>)

\* the sheets, each also as a filter "=5" on column A leaves it
FilterWorkbooks ==
    LET plain == { FilterSheet(FilterGrid(vals)) :
                      vals \in [1..(FilterRows - 1) -> FilterValuePool] }
    IN  plain \cup { _applyFilter(w, Letter_A, Defined(<<"=", "5">>)).wb : w \in plain }

FilterCriteria ==
    { <<">", "5">>, <<">", "=", " ", "5">>, <<"<", "1", "0">>, <<"<", "=", "5">>,
      <<"=", "5">>, <<"!", "=", "5">>, <<"5">>, <<"=", "b">>, <<"!", "=", "B">>,
      <<"b">>, <<">", "b">>, <<"<", "=", "b">>, <<>>, <<" ">>, <<">">>, <<">", "=">>,
      <<"b", "\n", "5">> }

FilterColumns == { <<"A">>, <<"a">>, <<"B">>, <<"C">> }

ActFilter(col, crit, missing) ==
    [NoAction EXCEPT !.action = "filter", !.column = col, !.criteria = crit,
                     !.missing = missing]

ActSort(col, asc, missing) ==
    [NoAction EXCEPT !.action = "sort", !.column = col, !.ascending = asc,
                     !.missing = missing]

FilterActions ==
    { ActFilter(col, crit, {}) : col \in FilterColumns, crit \in FilterCriteria }
    \cup { ActFilter(<<>>, crit, {"column"}) : crit \in {<<"=", "5">>, <<>>} }
    \cup { ActFilter(col, <<>>, {"criteria"}) : col \in FilterColumns }

SortActions ==
    { ActSort(col, asc, {}) : col \in FilterColumns, asc \in BOOLEAN }
    \cup { ActSort(col, TRUE, {"ascending"}) : col \in FilterColumns }
    \cup { ActSort(<<>>, TRUE, {"column"}) }

InitFilter == \E w \in FilterWorkbooks : StartOn(w)

FilterCall == \E a \in FilterActions : CallAction(a)

SortCall == \E a \in SortActions : CallAction(a)

NextFilter == last.op = "none" /\ (FilterCall \/ SortCall)

SpecFilter == InitFilter /\ [][NextFilter]_vars

\* the sheet's filter
TheFilter(w) == w.sheets[1].filter

\* C22 as stated: a filter action without a column, without criteria or with
\* criteria that do not parse leaves the workbook, its filter included, as it was.
C22_InvalidFilterNoMutation ==
    ( /\ LastIs("filter")
      /\ \/ last.act.missing # {}
         \/ ~criteriaMatch(last.act.criteria).ok )
    => wb = wb0

----------------------------------------------------------------------------
(* undoSheetActions: what is cleared and what is left (specification SpecUndo) *)

\* the sheet of workbook w that is called name
SheetNamed(w, name) == w.sheets[getSheetByName(w, name)]

\* the cells (row, column) of the sheet called name, with grid g, that lie in
\* a listed range
ListedCells(cc, name, g) ==
    UNION { { q \in (1..Len(g)) \X (1..NumCols(g)) : p.ok /\ InRect(p, q[1], q[2]) } :
              p \in { getRange(g, cc[e].range) :
                        e \in { d \in 1..Len(cc) : cc[d].sheet = name } } }

\* C23: after undoSheetActions returns, every listed range of a sheet that is
\* still there holds no content and no format; every other cell of a
\* surviving sheet is as before; and the report names all deletions before
\* any clearing.
C23_UndoClearsListedRanges ==
    (LastUndo /\ last.ledger.given /\ ~last.threw) =>
        /\ \A name \in SheetNames(wb) :
              /\ name \in SheetNames(wb0)
              /\ \E g \in {SheetNamed(wb, name).grid}, g0 \in {SheetNamed(wb0, name).grid} :
                    /\ Len(g) = Len(g0)
                    /\ \E L \in {ListedCells(last.ledger.cellsToClear, name, g)} :
                          \A r \in 1..Len(g) : \A k \in 1..Len(g[r]) :
                              IF <<r, k>> \in L THEN g[r][k] = EmptyCell
                              ELSE g[r][k] = g0[r][k]
        /\ \A a, b \in 1..Len(last.ret) :
              (last.ret[a] = "Cleared " /\ last.ret[b] = "Deleted sheet '") => b < a

\* an undo that deleted S2, skipped its listed range, and cleared A1 of S1,
\* whose formatted value in the last cell stays
C23_Witness ==
    /\ LastUndo
    /\ last.ledger.sheetsToDelete = <<"S2">>
    /\ last.ledger.cellsToClear
         = <<[sheet |-> "S2", range |-> A1B1], [sheet |-> "S1", range |-> A1]>>
    /\ SheetNames(wb0) = {"S1", "S2"}
    /\ SheetNamed(wb0, "S1").grid[1][1] = FormattedCell
    /\ SheetNames(wb) = {"S1"}
    /\ SheetNamed(wb, "S1").grid[1][1] = EmptyCell
    /\ SheetNamed(wb, "S1").grid[NewRows][NewCols] = FormattedCell

----------------------------------------------------------------------------
(* getSheetData and MAX_ROWS (specification SpecRead) *)

\* C24: every key of the cells map getSheetData returns is a cell of the
\* first MAX_ROWS rows of the data range, totalRows is the number of rows of
\* the whole data range, and truncated is true exactly when the data range
\* has more than MAX_ROWS rows or more than MAX_CELLS cells were read.
C24_RowLimit ==
    last.op = "getSheetData" =>
        LET Holds(g, rows, out) ==
              /\ \A e \in out.cells :
                    /\ e.key[2] \in 1..MAX_ROWS
                    /\ e.key[2] <= rows
              /\ out.totalRows = rows
              /\ out.truncated <=>
                    (rows > MAX_ROWS \/ Cardinality(NonEmptyRead(g)) > MAX_CELLS)
        IN  Holds(TheGrid(wb0), Max(getLastRow(TheGrid(wb0)), 1), last.ret)

\* a one-column sheet of MAX_ROWS + 1 rows read: cells of the first MAX_ROWS rows come
\* back, flagged as truncated, with the full row count
C24_Witness ==
    /\ last.op = "getSheetData"
    /\ last.ret.totalRows = MAX_ROWS + 1
    /\ last.ret.truncated
    /\ last.ret.totalColumns = 1
    /\ Cardinality(last.ret.cells) = MAX_ROWS
    /\ \E e \in last.ret.cells : e.key[2] = MAX_ROWS

----------------------------------------------------------------------------
(* The header row under filter and sort (specification SpecFilter) *)

\* the values of column k in the data rows of grid g
DataValues(g, k) == { g[r][k].c : r \in 2..Len(g) }

\* C25: the hide-list of a filter holds values of data rows only, at most one
\* per data row, so the header's value is not on it; and a sort leaves row 1
\* as it was and the rows below it a rearrangement of what they were.
C25_HeaderUntouched ==
    /\ \A k \in 1..Len(TheFilter(wb).hidden) :
          TheFilter(wb).hidden[k] \in DataValues(TheGrid(wb), TheFilter(wb).column)
    /\ Len(TheFilter(wb).hidden) <= Len(TheGrid(wb)) - 1
    /\ LastIs("sort") =>
          /\ TheGrid(wb)[1] = TheGrid(wb0)[1]
          /\ Len(TheGrid(wb)) = Len(TheGrid(wb0))
          /\ SeqToSet(TheGrid(wb)) = SeqToSet(TheGrid(wb0))

\* a sheet filtered on column A with values on the hide-list and the header's
\* value not among them, then sorted: the data rows moved, row 1 did not
C25_Witness ==
    /\ LastIs("sort")
    /\ ~last.threw
    /\ Len(TheFilter(wb).hidden) > 0
    /\ TheGrid(wb) # TheGrid(wb0)
    /\ TheGrid(wb)[1][1].c = <<"h">>
    /\ \E r \in 2..Len(TheGrid(wb)) : TheGrid(wb)[r][1].c = <<"5">>

----------------------------------------------------------------------------
(* The six filter operators (specification SpecFilter) *)

\* 'value operator operand': on numbers when the operand is one, on text
\* without regard to case otherwise
Satisfies(operator, operand, cellVal) ==
    LET a == toLowerCase(String(cellVal))
        b == toLowerCase(operand)
    IN  IF ~Number(Defined(operand)).nan /\ operand # <<>>
        THEN numSatisfies(operator, Number(cellVal), Number(Defined(operand)))
        ELSE IF operator = <<">">> THEN textLess(b, a)
        ELSE IF operator = <<">", "=">> THEN ~textLess(a, b)
        ELSE IF operator = <<"<">> THEN textLess(a, b)
        ELSE IF operator = <<"<", "=">> THEN ~textLess(b, a)
        ELSE IF operator = <<"=">> THEN a = b
        ELSE a # b

\* C26 as stated: after a filter on column A or B with criteria that parse,
\* the hide-list holds exactly the values of the data rows that do not
\* satisfy 'value operator operand', whichever of the six operators it is.
C26_HideListMatchesCriteria ==
    ( /\ LastIs("filter")
      /\ ~last.threw
      /\ last.act.missing = {}
      /\ criteriaMatch(last.act.criteria).ok
      /\ _letterToColumn(toUpperCase(last.act.column)) \in 1..NumCols(TheGrid(wb)) )
    => LET Holds(g, k, m) ==
             SeqToSet(TheFilter(wb).hidden)
               = { g[r][k].c : r \in { q \in 2..Len(g) :
                     ~Satisfies(IF m.operator = <<>> THEN <<"=">> ELSE m.operator,
                                trim(m.value), Defined(g[q][k].c)) } }
       IN  Holds(TheGrid(wb), _letterToColumn(toUpperCase(last.act.column)),
                 criteriaMatch(last.act.criteria))

----------------------------------------------------------------------------
(* Specification SpecCond: one deleteRows action with a condition, on a     *)
(* sheet of up to CondRows rows or on an empty sheet                        *)

\* most rows of the sheet, the header included
CondRows == 4

CondValuePool == { <<"x">>, <<"5">>, <<>> }

\* column A: the given values; column B: "r" and the row number
CondGrid(vals) ==
    [r \in 1..Len(vals) |->
        << [c |-> vals[r], f |-> FALSE], [c |-> <<"r", RowIds[r]>>, f |-> FALSE] >>]

CondWorkbooks ==
    { FilterSheet(CondGrid(vals)) :
        vals \in SeqsUpTo(CondValuePool, CondRows) \ {<<>>} }
    \cup { FilterSheet(BlankGrid(NewRows, NewCols)) }

Conditions ==
    { [given |-> TRUE, column |-> col, empty |-> e, hasValue |-> h, value |-> v] :
        col \in {<<"A">>, <<"a">>, <<"B">>}, e \in BOOLEAN,
        h \in BOOLEAN, v \in {<<"x">>, <<"5">>, <<>>} }

ActDeleteRowsWhere(sh, cond) ==
    [NoAction EXCEPT !.action = "deleteRows", !.sheet = sh, !.condition = cond]

InitCond == \E w \in CondWorkbooks : StartOn(w)

DeleteRowsWhereCall == \E cond \in Conditions : CallAction(ActDeleteRowsWhere("S1", cond))

NextCond == last.op = "none" /\ DeleteRowsWhereCall

SpecCond == InitCond /\ [][NextCond]_vars

\* the rows 2..lastRow of g whose cell in column k matches the condition
MatchingRows(g, k, cond) ==
    { r \in 2..getLastRow(g) :
        IF cond.empty THEN g[r][k].c = <<>>
        ELSE cond.hasValue /\ g[r][k].c = cond.value }

\* g without the rows of M
WithoutRows(g, M) ==
    LET kept == SelectSeq([r \in 1..Len(g) |-> r], LAMBDA r : r \notin M)
    IN  [k \in 1..Len(kept) |-> g[kept[k]]]

\* C27 as stated: deleteRows with a condition removes exactly the rows of
\* 2..lastRow whose cell matches, row 1 stays, and when no row matches it
\* returns 'No rows to delete' and the workbook is as before.
C27_ConditionalDelete ==
    (LastIs("deleteRows") /\ last.act.condition.given) =>
        LET Holds(g0, M) ==
              IF M = {}
              THEN /\ ~last.threw
                   /\ last.ret = <<"No rows to delete">>
                   /\ wb = wb0
              ELSE /\ ~last.threw
                   /\ TheGrid(wb) = WithoutRows(g0, M)
                   /\ TheGrid(wb)[1] = g0[1]
        IN  Holds(TheGrid(wb0),
                  MatchingRows(TheGrid(wb0),
                               _letterToColumn(toUpperCase(last.act.condition.column)),
                               last.act.condition))

----------------------------------------------------------------------------
(* setFormula's "(filled down)" message (specification SpecFormula) *)

\* C28 as stated: setFormula returns a message ending in "(filled down)" only
\* when the formula was copied to at least one more row.
C28_FilledDownOnlyWhenCopied ==
    ( /\ LastIs("setFormula")
      /\ ~last.threw
      /\ last.ret[Len(last.ret)] = " (filled down)" )
    => \E k \in 1..Len(last.calls) :
          /\ last.calls[k].op = "copyTo"
          /\ last.calls[k].to > last.calls[k].from

----------------------------------------------------------------------------
(* Specification SpecLedger: one plan on a workbook of one to three sheets, *)
(* then undoSheetActions with the ledger the caller kept for that plan      *)

\* longest plan
MaxLedgerPlan == 2

LedgerSteps ==
    { NestedStep(0, ActCreateSheet(n)) : n \in SheetNamePool }
    \cup { NestedStep(0, ActSetValues("S1", A1, OneValue)),
           NestedStep(0, ActClearRange("Zz", A1)) }

LedgerPlans == SeqsUpTo(LedgerSteps, MaxLedgerPlan)

\* the names of the createSheet actions among the dispatched arguments q
RECURSIVE createdNames(_)
createdNames(q) ==
    IF Len(q) = 0 THEN <<>>
    ELSE (IF q[1].isObj /\ q[1].act.action = "createSheet" THEN <<q[1].act.name>>
          ELSE <<>>)
         \o createdNames(Tail(q))

\* the caller's ledger for a plan: the sheets its createSheet actions named
PlanLedger(q) ==
    [given |-> TRUE, sheetsToDelete |-> createdNames(q), cellsToClear |-> <<>>]

InitLedger == \E w \in UndoWorkbooks : StartOn(w)

StartLedgerPlan == last.op = "none" /\ \E p \in LedgerPlans : StartPlan(p)

\* executeStepPlan has returned its report; the caller runs undoSheetActions
\* with the ledger of the plan
UndoPlanCall ==
    /\ pc \in {"done", "halted"}
    /\ \E out \in {undoSheetActions(wb, PlanLedger(disp))} :
          /\ wb' = out.wb
          /\ last' = [op |-> "undoSheetActions", act |-> NoAction,
                      ledger |-> PlanLedger(disp), ret |-> out.ret,
                      threw |-> out.threw, calls |-> out.calls, flushes |-> out.flushes]
    /\ donewb' = wb
    /\ pc' = "idle"
    /\ UNCHANGED <<wb0, steps, i, results, disp, flushed, usage_records, callers>>

NextLedger == StartLedgerPlan \/ PlanStep \/ UndoPlanCall

SpecLedger == InitLedger /\ [][NextLedger]_vars

\* C29 as stated: after a plan and the undo with the ledger of its createSheet
\* actions, every sheet name the workbook had before the plan is still there.
C29_UndoKeepsOldSheets ==
    LastUndo => \A name \in SheetNames(wb0) : name \in SheetNames(wb)

----------------------------------------------------------------------------
(* Specification SpecUndoTwice: undoSheetActions, and then once more with   *)
(* the same ledger                                                          *)

FirstUndoCall == last.op = "none" /\ UndoCall

\* the caller runs undoSheetActions again with the ledger of the call before,
\* and stops
SecondUndoCall ==
    /\ pc = "idle"
    /\ last.op = "undoSheetActions"
    /\ \E out \in {undoSheetActions(wb, last.ledger)} :
          /\ wb' = out.wb
          /\ last' = [last EXCEPT !.ret = out.ret, !.threw = out.threw,
                                  !.calls = out.calls, !.flushes = out.flushes]
    /\ wb0' = wb
    /\ donewb' = wb0
    /\ pc' = "stopped"
    /\ UNCHANGED <<steps, i, results, disp, flushed, usage_records, callers>>

NextUndoTwice == FirstUndoCall \/ SecondUndoCall

SpecUndoTwice == InitUndo /\ [][NextUndoTwice]_vars

\* C30: a second undoSheetActions with the same ledger, right after the
\* first, leaves the workbook the first call left: no sheet goes, no cell
\* changes.
C30_UndoTwiceSameAsOnce ==
    pc = "stopped" => wb = wb0

\* the first call deleted S2 and cleared A1 of S1 (donewb is the workbook
\* before it); the second found nothing left to do
C30_Witness ==
    /\ pc = "stopped"
    /\ last.ledger.sheetsToDelete = <<"S2">>
    /\ last.ledger.cellsToClear = <<[sheet |-> "S1", range |-> A1]>>
    /\ SheetNames(donewb) = {"S1", "S2"}
    /\ SheetNamed(donewb, "S1").grid[1][1] = FormattedCell
    /\ SheetNames(wb0) = {"S1"}
    /\ SheetNamed(wb, "S1").grid[1][1] = EmptyCell

====
